---- MODULE Spec2Model ----
(***************************************************************************)
(* A model of the command analysis and policy synthesis engine of          *)
(* iam-generator: the AWS CLI command parser (backend/iam_generator/       *)
(* parser.py), the permission catalog lookup and fallback rule             *)
(* (src/iam_generator/permissions_db.py), the documentation scraper's      *)
(* mapping rule (backend/iam_generator/doc_scraper.py), the discovery      *)
(* overlay (backend/iam_generator/auto_discovery.py) and the two copies of *)
(* the analyzer (backend/iam_generator/analyzer.py and                     *)
(* src/iam_generator/analyzer.py).                                         *)
(*                                                                         *)
(* Python strings are TLC strings; the operators below give them the       *)
(* character-level operations the code uses (strip, split, lower,          *)
(* startswith, regular-expression matching).                               *)
(***************************************************************************)
EXTENDS Integers, Sequences, FiniteSets, TLC

\* ------------------------------------------------------------------------
\* Bounds of the model
\* ------------------------------------------------------------------------
MaxBatch == 2

\* Body(value), with value computed once and then named by Body's parameter
Bind(value, Body(_)) == CHOOSE result \in {Body(v) : v \in {value}} : TRUE

\* ------------------------------------------------------------------------
\* Python string primitives
\* ------------------------------------------------------------------------
\* s[a-1:b] of Python: the characters a..b of s that exist
Slice(s, a, b) ==
    IF a > b \/ a > Len(s) THEN ""
    ELSE SubSeq(s, a, IF b > Len(s) THEN Len(s) ELSE b)

Ch(s, i) == Slice(s, i, i)

StartsWith(s, p) == Len(p) <= Len(s) /\ Slice(s, 1, Len(p)) = p

Contains(s, sub) ==
    \E i \in 1..(Len(s) - Len(sub) + 1) : Slice(s, i, i + Len(sub) - 1) = sub

\* least index >= from at which sub occurs in s, 0 when there is none
Find(s, sub, from) ==
    LET hits == {i \in from..(Len(s) - Len(sub) + 1) :
                    Slice(s, i, i + Len(sub) - 1) = sub}
    IN  IF hits = {} THEN 0 ELSE CHOOSE i \in hits : \A j \in hits : i <= j

RECURSIVE Split(_, _)
Split(s, sep) ==
    LET k == Find(s, sep, 1)
    IN  IF k = 0 THEN <<s>>
        ELSE <<Slice(s, 1, k - 1)>> \o Split(Slice(s, k + Len(sep), Len(s)), sep)

RECURSIVE Replace(_, _, _)
Replace(s, old, new) ==
    LET k == Find(s, old, 1)
    IN  IF k = 0 THEN s
        ELSE Slice(s, 1, k - 1) \o new
                \o Replace(Slice(s, k + Len(old), Len(s)), old, new)

RECURSIVE Join(_, _)
Join(parts, sep) ==
    IF Len(parts) = 0 THEN ""
    ELSE IF Len(parts) = 1 THEN parts[1]
    ELSE parts[1] \o sep \o Join(Tail(parts), sep)

Last(seq) == seq[Len(seq)]

Lowers == "abcdefghijklmnopqrstuvwxyz"
Uppers == "ABCDEFGHIJKLMNOPQRSTUVWXYZ"
Digits == "0123456789"

IsSpace(c) == c \in {" ", "\t", "\n"}
LowerSet == {Ch(Lowers, i) : i \in 1..26}
UpperSet == {Ch(Uppers, i) : i \in 1..26}
DigitSet == {Ch(Digits, i) : i \in 1..10}
IsLowerCh(c) == c \in LowerSet
IsUpperCh(c) == c \in UpperSet
IsDigitCh(c) == c \in DigitSet

ToLower == [c \in UpperSet |-> Ch(Lowers, Find(Uppers, c, 1))]
ToUpper == [c \in LowerSet |-> Ch(Uppers, Find(Lowers, c, 1))]
LowerCh(c) == IF IsUpperCh(c) THEN ToLower[c] ELSE c
UpperCh(c) == IF IsLowerCh(c) THEN ToUpper[c] ELSE c

RECURSIVE Lower(_)
Lower(s) == IF s = "" THEN "" ELSE LowerCh(Head(s)) \o Lower(Tail(s))

\* str.capitalize(): first character upper-cased, the rest lower-cased
Capitalize(s) == IF s = "" THEN "" ELSE UpperCh(Head(s)) \o Lower(Tail(s))

\* first index j >= i with j past the end of s or Ch(s, j) outside the class
RunEnd(s, i, InClass(_)) ==
    IF i > Len(s) THEN i
    ELSE CHOOSE j \in i..(Len(s) + 1) :
            /\ (j = Len(s) + 1 \/ ~InClass(Ch(s, j)))
            /\ \A k \in i..(j - 1) : InClass(Ch(s, k))

NotSpace(c) == ~IsSpace(c)

\* str.strip()
Strip(s) ==
    LET a == RunEnd(s, 1, IsSpace)
        ends == {j \in a..Len(s) : NotSpace(Ch(s, j))}
    IN  IF ends = {} THEN ""
        ELSE Slice(s, a, CHOOSE j \in ends : \A k \in ends : k <= j)

\* str.split(): the maximal runs of non-whitespace characters
RECURSIVE SplitWS(_)
SplitWS(s) ==
    LET a == RunEnd(s, 1, IsSpace)
        e == RunEnd(s, a, NotSpace)
    IN  IF a > Len(s) THEN <<>>
        ELSE <<Slice(s, a, e - 1)>> \o SplitWS(Slice(s, e, Len(s)))

\* code-point order of the characters the model's strings use
Ascii == " *-./0123456789:=ABCDEFGHIJKLMNOPQRSTUVWXYZ_abcdefghijklmnopqrstuvwxyz"
OrdTable == [c \in {Ch(Ascii, i) : i \in 1..Len(Ascii)} |-> Find(Ascii, c, 1)]
Ord(c) == OrdTable[c]

\* Python's str < str
RECURSIVE StrLess(_, _)
StrLess(a, b) ==
    IF b = "" THEN FALSE
    ELSE IF a = "" THEN TRUE
    ELSE IF Head(a) = Head(b) THEN StrLess(Tail(a), Tail(b))
    ELSE Ord(Head(a)) < Ord(Head(b))

StrLeq(a, b) == a = b \/ StrLess(a, b)

\* str(n) for the small naturals the model needs
RECURSIVE NumStr(_)
NumStr(n) == IF n < 10 THEN Ch(Digits, n + 1)
             ELSE NumStr(n \div 10) \o Ch(Digits, (n % 10) + 1)

\* the elements of a sequence, and a sequence without repeated elements
Range(seq) == {seq[i] : i \in DOMAIN seq}
IsPermutationOf(seq, S) == Len(seq) = Cardinality(S) /\ Range(seq) = S
Orderings(S) == {seq \in [1..Cardinality(S) -> S] : Range(seq) = S}

\* ------------------------------------------------------------------------
\* Command parser (backend/iam_generator/parser.py)
\* ------------------------------------------------------------------------
\* [a-z0-9-] under re.IGNORECASE
IsNameCh(c) == IsLowerCh(c) \/ IsUpperCh(c) \/ IsDigitCh(c) \/ c = "-"

NoMatch == [ok |-> FALSE, service |-> "", action |-> "", rest |-> ""]

\* the common tail of both command patterns, group 1 starting at a1:
\*   ([a-z0-9-]+)\s+([a-z0-9-]+)(?:\s+(.*))?$      ('.' matches no newline)
MatchTokens(cmd, a1) ==
    LET e1 == RunEnd(cmd, a1, IsNameCh)
        a2 == RunEnd(cmd, e1, IsSpace)
        e2 == RunEnd(cmd, a2, IsNameCh)
        a3 == RunEnd(cmd, e2, IsSpace)
        rest == Slice(cmd, a3, Len(cmd))
    IN  IF /\ e1 > a1 /\ a2 > e1 /\ e2 > a2
           /\ (e2 > Len(cmd) \/ (a3 > e2 /\ ~Contains(rest, "\n")))
        THEN [ok |-> TRUE,
              service |-> Slice(cmd, a1, e1 - 1),
              action |-> Slice(cmd, a2, e2 - 1),
              rest |-> IF e2 > Len(cmd) THEN "" ELSE rest]
        ELSE NoMatch

\* ^aws\s+ followed by the common tail
AWS_CLI_PATTERN(cmd) ==
    IF /\ Len(cmd) >= 3
       /\ Lower(Slice(cmd, 1, 3)) = "aws"
       /\ RunEnd(cmd, 4, IsSpace) > 4
    THEN MatchTokens(cmd, RunEnd(cmd, 4, IsSpace))
    ELSE NoMatch

AWS_CLI_NO_PREFIX_PATTERN(cmd) == MatchTokens(cmd, 1)

\* every alias maps a service to itself except s3api
SERVICE_ALIASES(service) == IF service = "s3api" THEN "s3" ELSE service

invalid_terms ==
    {"invalid", "command", "format", "test", "example", "demo",
     "hello", "world", "foo", "bar", "baz"}

_is_valid_aws_command_format(service, action, original_command) ==
    IF service \in invalid_terms \/ action \in invalid_terms THEN FALSE
    ELSE IF /\ ~StartsWith(original_command, "aws ")
            /\ Len(SplitWS(original_command)) > 2
         THEN LET words == SplitWS(original_command)
              IN  ~(Len(words) = 3 /\ \A i \in 1..3 : words[i] \in invalid_terms)
         ELSE TRUE

\* A Python dict, in insertion order: a sequence of entries [k, v, b] where
\* b says that the value is the boolean True (v is then unused).
DictHas(d, key) == \E i \in DOMAIN d : d[i].k = key
DictGet(d, key) == d[CHOOSE i \in DOMAIN d : d[i].k = key]
DictSet(d, key, val, isTrue) ==
    LET e == [k |-> key, v |-> val, b |-> isTrue]
    IN  IF DictHas(d, key)
        THEN [i \in DOMAIN d |-> IF d[i].k = key THEN e ELSE d[i]]
        ELSE Append(d, e)

\* the while loop of _parse_parameters over the tokens, from token i on
RECURSIVE ParseTokens(_, _, _)
ParseTokens(tokens, i, parameters) ==
    IF i > Len(tokens) THEN parameters
    ELSE
      LET token == tokens[i] IN
      IF StartsWith(token, "--") THEN
        LET param_name == Slice(token, 3, Len(token))
            hasValue == i + 1 <= Len(tokens) /\ ~StartsWith(tokens[i + 1], "-")
            param_value == IF hasValue THEN tokens[i + 1] ELSE ""
            p1 == DictSet(parameters, param_name, param_value, ~hasValue)
            p2 == DictSet(p1, token, param_value, ~hasValue)
            p3 == IF hasValue THEN DictSet(p2, param_value, "", TRUE) ELSE p2
        IN  ParseTokens(tokens, IF hasValue THEN i + 2 ELSE i + 1, p3)
      ELSE IF Contains(token, "=") /\ StartsWith(token, "--") THEN
        LET full_param_name == Split(token, "=")[1]
            param_name == Slice(full_param_name, 3, Len(full_param_name))
            param_value == Slice(token, Find(token, "=", 1) + 1, Len(token))
            p1 == DictSet(parameters, param_name, param_value, FALSE)
            p2 == DictSet(p1, full_param_name, param_value, FALSE)
            p3 == DictSet(p2, param_value, "", TRUE)
        IN  ParseTokens(tokens, i + 1, p3)
      ELSE
        LET n == Cardinality({j \in DOMAIN parameters :
                                 StartsWith(parameters[j].k, "arg_")})
            p1 == DictSet(parameters, "arg_" \o NumStr(n), token, FALSE)
            p2 == DictSet(p1, token, "", TRUE)
        IN  ParseTokens(tokens, i + 1, p2)

\* shlex.split on text without quotes, backslashes or comments is str.split
_parse_parameters(params_str) ==
    IF Strip(params_str) = "" THEN <<>>
    ELSE ParseTokens(SplitWS(params_str), 1, <<>>)

\* ARN_PATTERN, matched at position i: the index after the match, 0 if none
\*   arn:aws:[a-z0-9-]+:[a-z0-9-]*:[a-z0-9]*:[a-z0-9-/\*\.]+   (IGNORECASE)
IsAlnumCh(c) == IsLowerCh(c) \/ IsUpperCh(c) \/ IsDigitCh(c)
IsArnTailCh(c) == IsAlnumCh(c) \/ c \in {"-", "/", "*", "."}
ArnEnd(s, i) ==
    LET e1 == RunEnd(s, i + 8, IsNameCh)
        e2 == RunEnd(s, e1 + 1, IsNameCh)
        e3 == RunEnd(s, e2 + 1, IsAlnumCh)
        e4 == RunEnd(s, e3 + 1, IsArnTailCh)
    IN  IF /\ Lower(Slice(s, i, i + 7)) = "arn:aws:"
           /\ e1 > i + 8 /\ Ch(s, e1) = ":"
           /\ Ch(s, e2) = ":"
           /\ Ch(s, e3) = ":"
           /\ e4 > e3 + 1
        THEN e4 ELSE 0

RECURSIVE FindAllArns(_, _)
FindAllArns(s, i) ==
    IF i > Len(s) THEN <<>>
    ELSE IF ArnEnd(s, i) > 0
         THEN <<Slice(s, i, ArnEnd(s, i) - 1)>> \o FindAllArns(s, ArnEnd(s, i))
         ELSE FindAllArns(s, i + 1)

\* s3_pattern  s3://([a-z0-9.-]+)(?:/([^/\s]*))?  : ARNs of every match
IsBucketCh(c) == IsLowerCh(c) \/ IsDigitCh(c) \/ c \in {".", "-"}
IsKeyCh(c) == Len(c) = 1 /\ c # "/" /\ ~IsSpace(c)
RECURSIVE S3Arns(_, _)
S3Arns(s, i) ==
    IF i > Len(s) THEN <<>>
    ELSE
      LET be == RunEnd(s, i + 5, IsBucketCh)
          hasKey == Ch(s, be) = "/"
          ke == IF hasKey THEN RunEnd(s, be + 1, IsKeyCh) ELSE be
          bucket == Slice(s, i + 5, be - 1)
          key == IF hasKey THEN Slice(s, be + 1, ke - 1) ELSE ""
      IN  IF Slice(s, i, i + 4) = "s3://" /\ be > i + 5
          THEN <<"arn:aws:s3:::" \o bucket>>
                 \o (IF key # "" THEN <<"arn:aws:s3:::" \o bucket \o "/" \o key>>
                     ELSE <<>>)
                 \o S3Arns(s, ke)
          ELSE S3Arns(s, i + 1)

\* instance_pattern  i-[0-9a-f]{8,17}
IsHexCh(c) == IsDigitCh(c) \/ (Len(c) = 1 /\ Contains("abcdef", c))
RECURSIVE InstanceArns(_, _)
InstanceArns(s, i) ==
    IF i > Len(s) THEN <<>>
    ELSE
      LET run == RunEnd(s, i + 2, IsHexCh) - (i + 2)
          n == IF run > 17 THEN 17 ELSE run
      IN  IF Slice(s, i, i + 1) = "i-" /\ n >= 8
          THEN <<"arn:aws:ec2:*:*:instance/" \o Slice(s, i, i + 1 + n)>>
                 \o InstanceArns(s, i + 2 + n)
          ELSE InstanceArns(s, i + 1)

\* func_pattern  --function-name\s+([a-zA-Z0-9_:-]+)
IsFuncCh(c) == IsAlnumCh(c) \/ c \in {"_", ":", "-"}
RECURSIVE FunctionArns(_, _)
FunctionArns(s, i) ==
    IF i > Len(s) THEN <<>>
    ELSE
      LET a == RunEnd(s, i + 15, IsSpace)
          e == RunEnd(s, a, IsFuncCh)
      IN  IF Slice(s, i, i + 14) = "--function-name" /\ a > i + 15 /\ e > a
          THEN <<"arn:aws:lambda:*:*:function:" \o Slice(s, a, e - 1)>>
                 \o FunctionArns(s, e)
          ELSE FunctionArns(s, i + 1)

_generate_arns_from_identifiers(command) ==
    S3Arns(command, 1)
      \o InstanceArns(command, 1)
      \o (IF Contains(command, "lambda") /\ Contains(command, "--function-name")
          THEN FunctionArns(command, 1) ELSE <<>>)

\* _extract_arns returns list(set(arns)): the distinct ARNs, in the order the
\* interpreter's string hashing happens to give.  ExtractedArns is the set;
\* the order is chosen where the parser is called.
ExtractedArns(command) ==
    Range(FindAllArns(command, 1) \o _generate_arns_from_identifiers(command))

\* parse_command without the ordering of resource_arns; ok = FALSE stands for
\* the ValueError
ParseFailure ==
    [ok |-> FALSE, service |-> "", action |-> "", parameters |-> <<>>,
     raw_command |-> ""]

parse_command(text) ==
    Bind(Strip(text), LAMBDA command :
    Bind(AWS_CLI_PATTERN(command), LAMBDA m1 :
    Bind(IF m1.ok THEN m1 ELSE AWS_CLI_NO_PREFIX_PATTERN(command), LAMBDA match :
    Bind(Lower(match.service), LAMBDA service :
    Bind(Lower(match.action), LAMBDA action :
        IF ~match.ok THEN ParseFailure
        ELSE IF ~_is_valid_aws_command_format(service, action, command)
             THEN ParseFailure
        ELSE [ok |-> TRUE,
              service |-> SERVICE_ALIASES(service),
              action |-> action,
              parameters |-> _parse_parameters(match.rest),
              raw_command |-> command])))))

\* ------------------------------------------------------------------------
\* Permission catalog (src/iam_generator/permissions_db.py)
\* ------------------------------------------------------------------------
\* An IAMPermission.  The condition is None or a dict; a dict is the sequence
\* of its [op, key, value] entries in insertion order.
NoneCondition == [none |-> TRUE, items |-> <<>>]
DictCondition(items) == [none |-> FALSE, items |-> items]

IAMPermission(action, resource) ==
    [action |-> action, resource |-> resource,
     condition |-> NoneCondition, effect |-> "Allow"]

\* the catalog entries of the commands the model analyses; every other
\* (service, action) pair the model looks up is absent from the real table too
CatalogServices == {"s3", "ec2", "lambda"}
CatalogActions(service) ==
    CASE service = "s3" -> {"ls", "cp"}
      [] service = "ec2" -> {"describe-instances"}
      [] service = "lambda" -> {"invoke", "create-function"}
      [] OTHER -> {}

_permissions_map(service, action) ==
    CASE service = "s3" /\ action = "ls" ->
           <<IAMPermission("s3:ListBucket", "arn:aws:s3:::*"),
             IAMPermission("s3:ListAllMyBuckets", "*")>>
      [] service = "s3" /\ action = "cp" ->
           <<IAMPermission("s3:GetObject", "*"),
             IAMPermission("s3:PutObject", "*"),
             IAMPermission("s3:ListBucket", "*")>>
      [] service = "ec2" /\ action = "describe-instances" ->
           <<IAMPermission("ec2:DescribeInstances", "*")>>
      [] service = "lambda" /\ action = "invoke" ->
           <<IAMPermission("lambda:InvokeFunction", "*")>>
      [] service = "lambda" /\ action = "create-function" ->
           <<IAMPermission("lambda:CreateFunction", "*"),
             IAMPermission("iam:PassRole", "*")>>

\* a CommandPermissions, or None (found = FALSE)
NoPermissions == [found |-> FALSE, permissions |-> <<>>]
CommandPermissions(permissions) == [found |-> TRUE, permissions |-> permissions]

\* IAMPermissionsDatabase.get_permissions_object
get_permissions_object(service, action) ==
    IF Lower(service) \in CatalogServices
    THEN IF Lower(action) \in CatalogActions(Lower(service))
         THEN CommandPermissions(_permissions_map(Lower(service), Lower(action)))
         ELSE NoPermissions
    ELSE NoPermissions

\* IAMPermissionsDatabase.get_supported_services
get_supported_services == CatalogServices

RECURSIVE CapitalizeAll(_)
CapitalizeAll(parts) ==
    IF Len(parts) = 0 THEN ""
    ELSE Capitalize(parts[1]) \o CapitalizeAll(Tail(parts))

\* a conversion that leaves the CLI action as it is written
_convert_action_to_iam_verbatim(cli_action) == cli_action

_convert_action_to_iam(cli_action) == CapitalizeAll(Split(cli_action, "-"))

\* ------------------------------------------------------------------------
\* Documentation scraper's mapping rule (backend/iam_generator/doc_scraper.py)
\* ------------------------------------------------------------------------
\* the "patterns" table, in insertion order; the five last entries (sync, cp,
\* mv, rm, ls) have templates without {service} and never produce a result
PrefixPatterns ==
    <<"describe-", "list-", "get-", "create-", "delete-", "put-", "update-",
      "modify-", "attach-", "detach-", "enable-", "disable-", "start-",
      "stop-", "restart-", "terminate-", "reboot-", "authorize-", "revoke-",
      "copy-">>

\* permission_template.format(service=service) of the pattern "<prefix>*"
PatternPermission(service, prefix) ==
    service \o ":" \o Capitalize(Slice(prefix, 1, Len(prefix) - 1)) \o "*"

\* the "service_patterns" table: a sequence of actions, <<>> when absent
service_patterns(service, command) ==
    CASE service = "s3" /\ command = "ls" -> <<"s3:ListBucket">>
      [] service = "s3" /\ command = "cp" -> <<"s3:GetObject", "s3:PutObject">>
      [] service = "s3" /\ command = "mv" ->
           <<"s3:GetObject", "s3:PutObject", "s3:DeleteObject">>
      [] service = "s3" /\ command = "rm" -> <<"s3:DeleteObject">>
      [] service = "s3" /\ command = "sync" ->
           <<"s3:ListBucket", "s3:GetObject", "s3:PutObject", "s3:DeleteObject">>
      [] service = "s3" /\ command = "mb" -> <<"s3:CreateBucket">>
      [] service = "s3" /\ command = "rb" -> <<"s3:DeleteBucket">>
      [] service = "ec2" /\ command = "run-instances" ->
           <<"ec2:RunInstances", "ec2:DescribeImages", "ec2:DescribeKeyPairs",
             "ec2:DescribeSecurityGroups", "ec2:DescribeSubnets">>
      [] service = "ec2" /\ command = "copy-image" ->
           <<"ec2:CopyImage", "ec2:DescribeImages">>
      [] service = "ec2" /\ command = "import-image" ->
           <<"ec2:ImportImage", "ec2:DescribeImportImageTasks">>
      [] service = "ec2" /\ command = "create-image" ->
           <<"ec2:CreateImage", "ec2:DescribeInstances">>
      [] service = "ec2" /\ command = "register-image" -> <<"ec2:RegisterImage">>
      [] service = "lambda" /\ command = "create-function" ->
           <<"lambda:CreateFunction", "iam:PassRole">>
      [] service = "lambda" /\ command = "update-function-code" ->
           <<"lambda:UpdateFunctionCode">>
      [] service = "lambda" /\ command = "update-function-configuration" ->
           <<"lambda:UpdateFunctionConfiguration">>
      [] service = "lambda" /\ command = "invoke" -> <<"lambda:InvokeFunction">>
      [] service = "rds" /\ command = "create-db-instance" ->
           <<"rds:CreateDBInstance", "rds:DescribeDBSubnetGroups",
             "rds:DescribeDBParameterGroups">>
      [] service = "rds" /\ command = "describe-db-engine-versions" ->
           <<"rds:DescribeDBEngineVersions">>
      [] service = "rds" /\ command = "create-custom-db-engine-version" ->
           <<"rds:CreateCustomDBEngineVersion">>
      [] service = "rds" /\ command = "describe-custom-db-engine-versions" ->
           <<"rds:DescribeCustomDBEngineVersions">>
      [] service = "rds" /\ command = "modify-db-instance" ->
           <<"rds:ModifyDBInstance">>
      [] OTHER -> <<>>

\* the "additional_permissions" table of the special cases
additional_rules(base_perm) ==
    CASE base_perm = "lambda:CreateFunction" -> <<"iam:PassRole">>
      [] base_perm = "lambda:UpdateFunctionConfiguration" -> <<"iam:PassRole">>
      [] base_perm = "ec2:RunInstances" ->
           <<"ec2:DescribeImages", "ec2:DescribeKeyPairs",
             "ec2:DescribeSecurityGroups", "ec2:DescribeSubnets">>
      [] base_perm = "ec2:CreateSecurityGroup" -> <<"ec2:DescribeVpcs">>
      [] base_perm = "iam:AttachUserPolicy" -> <<"iam:GetPolicy">>
      [] base_perm = "iam:AttachRolePolicy" -> <<"iam:GetPolicy">>
      [] base_perm = "iam:AttachGroupPolicy" -> <<"iam:GetPolicy">>
      [] OTHER -> <<>>

_get_base_permissions(service, command) ==
    LET hits == {i \in DOMAIN PrefixPatterns : StartsWith(command, PrefixPatterns[i])}
    IN  IF service_patterns(service, command) # <<>>
        THEN service_patterns(service, command)
        ELSE IF hits # {}
        THEN <<PatternPermission(service,
                  PrefixPatterns[CHOOSE i \in hits : \A j \in hits : i <= j])>>
        ELSE <<service \o ":" \o _convert_action_to_iam(command)>>

RECURSIVE AdditionalOf(_)
AdditionalOf(base_permissions) ==
    IF Len(base_permissions) = 0 THEN <<>>
    ELSE additional_rules(Head(base_permissions)) \o AdditionalOf(Tail(base_permissions))

_get_additional_permissions(service, command, base_permissions) ==
    LET additional == AdditionalOf(base_permissions)
        describe_perm == service \o ":Describe*"
    IN  IF /\ \E kw \in {"create", "modify", "update", "attach"} : Contains(command, kw)
           /\ describe_perm \notin Range(base_permissions)
           /\ describe_perm \notin Range(additional)
        THEN Append(additional, describe_perm)
        ELSE additional

\* the distinct elements of a sequence, in the order of their first occurrence
RECURSIVE Unique(_)
Unique(seq) ==
    IF Len(seq) = 0 THEN <<>>
    ELSE LET front == Unique(SubSeq(seq, 1, Len(seq) - 1))
         IN  IF Last(seq) \in Range(front) THEN front
             ELSE Append(front, Last(seq))

map_command_to_permissions(service, command) ==
    LET base == _get_base_permissions(service, command)
        all == Unique(base \o _get_additional_permissions(service, command, base))
    IN  [i \in DOMAIN all |-> IAMPermission(all[i], "*")]

_determine_confidence(service, command) ==
    IF service_patterns(service, command) # <<>> THEN "high"
    ELSE IF \E i \in DOMAIN PrefixPatterns : StartsWith(command, PrefixPatterns[i])
    THEN "medium"
    ELSE IF command \in {"sync", "cp", "mv", "rm", "ls"} THEN "medium"
    ELSE "low"

\* ------------------------------------------------------------------------
\* Analyzer (backend/iam_generator/analyzer.py).  The repository holds a
\* second copy of the class, src/iam_generator/analyzer.py; where the two
\* differ the operator of the second copy carries the suffix _src.
\* ------------------------------------------------------------------------
specific_resource_actions(service) ==
    CASE service = "s3" ->
           {"s3:GetObject", "s3:PutObject", "s3:DeleteObject", "s3:GetObjectAcl",
            "s3:PutObjectAcl", "s3:ListBucket", "s3:GetBucketLocation",
            "s3:GetBucketAcl", "s3:PutBucketAcl"}
      [] service = "ec2" ->
           {"ec2:TerminateInstances", "ec2:StopInstances", "ec2:StartInstances",
            "ec2:RebootInstances", "ec2:DescribeInstances",
            "ec2:ModifyInstanceAttribute", "ec2:GetConsoleOutput",
            "ec2:GetConsoleScreenshot"}
      [] service = "lambda" ->
           {"lambda:InvokeFunction", "lambda:GetFunction",
            "lambda:UpdateFunctionCode", "lambda:UpdateFunctionConfiguration",
            "lambda:DeleteFunction", "lambda:AddPermission",
            "lambda:RemovePermission"}
      [] service = "dynamodb" ->
           {"dynamodb:GetItem", "dynamodb:PutItem", "dynamodb:UpdateItem",
            "dynamodb:DeleteItem", "dynamodb:Query", "dynamodb:Scan",
            "dynamodb:BatchGetItem", "dynamodb:BatchWriteItem"}
      [] service = "iam" ->
           {"iam:GetUser", "iam:GetRole", "iam:GetPolicy", "iam:AttachRolePolicy",
            "iam:DetachRolePolicy", "iam:AttachUserPolicy",
            "iam:DetachUserPolicy", "iam:DeleteUser", "iam:DeleteRole"}
      [] OTHER -> {}

_should_use_specific_resource(action, service) ==
    action \in specific_resource_actions(service)

_should_use_specific_resource_src(action, service) ==
    \/ /\ service = "s3"
       /\ action \in {"s3:ListBucket", "s3:GetBucketLocation", "s3:GetObject",
                      "s3:PutObject", "s3:DeleteObject"}
    \/ service = "ec2" /\ Contains(action, "Instance")
    \/ service = "lambda" /\ Contains(action, "Function")

\* action.split(":")[0] if ":" in action else ""
ActionPrefix(action) == IF Contains(action, ":") THEN Split(action, ":")[1] ELSE ""

\* None is the empty string: no ARN is empty
_select_appropriate_resource_arn(action, resource_arns) ==
    LET service == ActionPrefix(action)
        Matches(arn) == Contains(arn, service)
                           \/ StartsWith(arn, "arn:aws:" \o service \o ":")
        matching_arns == SelectSeq(resource_arns, Matches)
    IN  IF Len(resource_arns) = 0 THEN ""
        ELSE IF Len(matching_arns) > 0 THEN matching_arns[1]
        ELSE resource_arns[1]

IsBucketArn(arn) ==
    StartsWith(arn, "arn:aws:s3:::") /\ ~Contains(Last(Split(arn, ":::")), "/")
IsObjectArn(arn) ==
    StartsWith(arn, "arn:aws:s3:::") /\ Contains(Last(Split(arn, ":::")), "/")

_select_appropriate_resource_arn_src(action, resource_arns) ==
    LET bucket_arns == SelectSeq(resource_arns, IsBucketArn)
        object_arns == SelectSeq(resource_arns, IsObjectArn)
    IN  IF Len(resource_arns) = 0 THEN ""
        ELSE IF action = "s3:ListBucket" /\ Len(bucket_arns) > 0 THEN bucket_arns[1]
        ELSE IF action = "s3:GetObject" /\ Len(object_arns) > 0 THEN object_arns[1]
        ELSE IF action = "s3:GetObject" /\ Len(bucket_arns) > 0
             THEN bucket_arns[1] \o "/*"
        ELSE IF action = "s3:PutObject" /\ Len(bucket_arns) > 0
             THEN bucket_arns[1] \o "/*"
        ELSE IF action = "s3:PutObject" /\ Len(object_arns) > 0 THEN object_arns[1]
        ELSE IF action = "s3:DeleteObject" /\ Len(object_arns) > 0 THEN object_arns[1]
        ELSE IF action = "s3:DeleteObject" /\ Len(bucket_arns) > 0
             THEN bucket_arns[1] \o "/*"
        ELSE resource_arns[1]

\* a customization that ignores the whitelist
_customize_permission_resource_any_action(impl, permission, parsed_cmd, strict_resources) ==
    LET arns == parsed_cmd.resource_arns
        resource == IF impl = "src"
                    THEN _select_appropriate_resource_arn_src(permission.action, arns)
                    ELSE _select_appropriate_resource_arn(permission.action, arns)
    IN  IF Len(arns) > 0 /\ resource # ""
        THEN [action |-> permission.action, resource |-> resource,
              condition |-> permission.condition, effect |-> permission.effect]
        ELSE permission

\* impl says which copy of the class runs: "backend" or "src"
_customize_permission_resource(impl, permission, parsed_cmd, strict_resources) ==
    LET arns == parsed_cmd.resource_arns
        use == IF impl = "src"
               THEN _should_use_specific_resource_src(permission.action, parsed_cmd.service)
               ELSE _should_use_specific_resource(permission.action, parsed_cmd.service)
        resource == IF impl = "src"
                    THEN _select_appropriate_resource_arn_src(permission.action, arns)
                    ELSE _select_appropriate_resource_arn(permission.action, arns)
    IN  IF Len(arns) > 0 /\ use /\ resource # ""
        THEN [action |-> permission.action, resource |-> resource,
              condition |-> permission.condition, effect |-> permission.effect]
        ELSE IF strict_resources /\ Len(arns) > 0
        THEN [action |-> permission.action, resource |-> arns[1],
              condition |-> permission.condition, effect |-> permission.effect]
        ELSE permission

\* first loop of the s3 cp enhancement: ListBucket for every bucket ARN that
\* no ListBucket permission mentions yet
RECURSIVE EnsureListBucket(_, _)
EnsureListBucket(enhanced, bucket_arns) ==
    IF Len(bucket_arns) = 0 THEN enhanced
    ELSE
      LET bucket_arn == Head(bucket_arns)
          has_list_permission ==
              \E i \in DOMAIN enhanced :
                  /\ enhanced[i].action = "s3:ListBucket"
                  /\ Contains(enhanced[i].resource, bucket_arn)
      IN  EnsureListBucket(
              IF has_list_permission THEN enhanced
              ELSE Append(enhanced, IAMPermission("s3:ListBucket", bucket_arn)),
              Tail(bucket_arns))

\* second loop: PutObject and GetObject on every bucket
RECURSIVE AddObjectAccess(_, _)
AddObjectAccess(enhanced, bucket_arns) ==
    IF Len(bucket_arns) = 0 THEN enhanced
    ELSE AddObjectAccess(
            enhanced \o <<IAMPermission("s3:PutObject", Head(bucket_arns) \o "/*"),
                          IAMPermission("s3:GetObject", Head(bucket_arns) \o "/*")>>,
            Tail(bucket_arns))

_enhance_with_additional_permissions(permissions, parsed_command) ==
    IF /\ parsed_command.service = "s3"
       /\ parsed_command.action = "cp"
       /\ Len(parsed_command.resource_arns) > 1
    THEN LET bucket_arns == SelectSeq(parsed_command.resource_arns, IsBucketArn)
         IN  AddObjectAccess(EnsureListBucket(permissions, bucket_arns), bucket_arns)
    ELSE permissions

\* the second definition of the method in the src copy replaces the first
_enhance_with_additional_permissions_src(permissions, parsed_command) == permissions

_generate_fallback_permission(parsed_cmd) ==
    IAMPermission(parsed_cmd.service \o ":" \o _convert_action_to_iam(parsed_cmd.action),
                  "*")

read_only_actions(service) ==
    CASE service = "s3" -> <<"s3:ListBucket", "s3:GetBucketLocation", "s3:ListAllMyBuckets">>
      [] service = "ec2" -> <<"ec2:Describe*">>
      [] service = "iam" -> <<"iam:List*", "iam:Get*">>
      [] service = "lambda" -> <<"lambda:List*", "lambda:Get*">>
      [] service = "logs" -> <<"logs:Describe*">>
      [] service = "sts" -> <<"sts:GetCallerIdentity">>
      [] OTHER -> <<>>

\* a baseline of the first action of every service only
RECURSIVE _get_read_only_permissions_first_action(_)
_get_read_only_permissions_first_action(services) ==
    IF Len(services) = 0 THEN <<>>
    ELSE LET acts == read_only_actions(Head(services))
         IN  [i \in DOMAIN acts \cap {1} |-> IAMPermission(acts[i], "*")]
                \o _get_read_only_permissions_first_action(Tail(services))

\* services: the set services_used in the order its iteration gives
RECURSIVE _get_read_only_permissions(_)
_get_read_only_permissions(services) ==
    IF Len(services) = 0 THEN <<>>
    ELSE LET acts == read_only_actions(Head(services))
         IN  [i \in DOMAIN acts |-> IAMPermission(acts[i], "*")]
                \o _get_read_only_permissions(Tail(services))

\* str(condition): "None", or the rendering of the dict entry by entry
RECURSIVE PyStrItems(_)
PyStrItems(items) ==
    IF Len(items) = 0 THEN <<>>
    ELSE <<Head(items).op, Head(items).key, Head(items).value>> \o PyStrItems(Tail(items))
PyStr(condition) ==
    IF condition.none THEN <<"None">>
    ELSE <<"{">> \o PyStrItems(condition.items) \o <<"}">>

\* bool(condition)
Truthy(condition) == ~condition.none /\ Len(condition.items) > 0

\* sorted(group, key=lambda p: (p.resource == "*", p.resource)), a stable sort
ResourceKeyLess(p, q) ==
    \/ p.resource # "*" /\ q.resource = "*"
    \/ /\ (p.resource = "*") = (q.resource = "*")
       /\ StrLess(p.resource, q.resource)

RECURSIVE InsertByResource(_, _)
InsertByResource(sorted, p) ==
    IF Len(sorted) = 0 THEN <<p>>
    ELSE IF ResourceKeyLess(p, Head(sorted)) THEN <<p>> \o sorted
    ELSE <<Head(sorted)>> \o InsertByResource(Tail(sorted), p)

RECURSIVE SortedByResource(_)
SortedByResource(group) ==
    IF Len(group) = 0 THEN <<>>
    ELSE InsertByResource(SortedByResource(SubSeq(group, 1, Len(group) - 1)),
                          Last(group))

DedupKey(perm) == <<perm.action, PyStr(perm.condition), perm.effect>>

\* a second loop that keeps one permission of every group
KeptOfGroupFirstOnly(group) ==
    IF Len(group) = 1 THEN group ELSE <<SortedByResource(group)[1]>>

\* a second loop that keeps the whole sorted group, wildcards included
KeptOfGroupUnfiltered(group) ==
    IF Len(group) = 1 THEN group ELSE SortedByResource(group)

\* what the second loop of _deduplicate_permissions keeps of one group
KeptOfGroup(group) ==
    LET sorted_group == SortedByResource(group)
        NotWildcard(p) == p.resource # "*"
        specific_resources == SelectSeq(sorted_group, NotWildcard)
    IN  IF Len(group) = 1 THEN group
        ELSE IF Len(specific_resources) > 0 THEN specific_resources
        ELSE <<sorted_group[1]>>

RECURSIVE KeptOfGroups(_, _)
KeptOfGroups(keys, permissions) ==
    IF Len(keys) = 0 THEN <<>>
    ELSE LET InGroup(p) == DedupKey(p) = Head(keys)
         IN  KeptOfGroup(SelectSeq(permissions, InGroup))
                \o KeptOfGroups(Tail(keys), permissions)

_deduplicate_permissions(permissions) ==
    KeptOfGroups(Unique([i \in DOMAIN permissions |-> DedupKey(permissions[i])]),
                 permissions)

\* sorted(list(set(actions)))
RECURSIVE InsertString(_, _)
InsertString(sorted, x) ==
    IF Len(sorted) = 0 THEN <<x>>
    ELSE IF StrLess(x, Head(sorted)) THEN <<x>> \o sorted
    ELSE <<Head(sorted)>> \o InsertString(Tail(sorted), x)

RECURSIVE SortStrings(_)
SortStrings(S) ==
    IF S = {} THEN <<>>
    ELSE LET x == CHOOSE y \in S : TRUE
         IN  InsertString(SortStrings(S \ {x}), x)

PolicyKey(perm) == <<perm.resource, perm.effect, PyStr(perm.condition)>>

\* an entry of resource_groups whose actions stay as they were appended
StatementOfAppended(group) ==
    LET actions == [i \in DOMAIN group |-> group[i].action]
    IN  IF Truthy(group[1].condition)
        THEN [Effect |-> group[1].effect, Action |-> actions,
              Resource |-> group[1].resource, Condition |-> group[1].condition]
        ELSE [Effect |-> group[1].effect, Action |-> actions,
              Resource |-> group[1].resource]

\* one entry of resource_groups, after its actions are sorted
StatementOf(group) ==
    LET actions == SortStrings({group[i].action : i \in DOMAIN group})
    IN  IF Truthy(group[1].condition)
        THEN [Effect |-> group[1].effect, Action |-> actions,
              Resource |-> group[1].resource, Condition |-> group[1].condition]
        ELSE [Effect |-> group[1].effect, Action |-> actions,
              Resource |-> group[1].resource]

RECURSIVE StatementsOf(_, _)
StatementsOf(keys, permissions) ==
    IF Len(keys) = 0 THEN <<>>
    ELSE LET InGroup(p) == PolicyKey(p) = Head(keys)
         IN  <<StatementOf(SelectSeq(permissions, InGroup))>>
                \o StatementsOf(Tail(keys), permissions)

_generate_policy_document(permissions) ==
    [Version |-> "2012-10-17",
     Statement |-> StatementsOf(
                      Unique([i \in DOMAIN permissions |-> PolicyKey(permissions[i])]),
                      permissions)]

\* An Optional[str] argument: None, or a string
None == [none |-> TRUE, s |-> ""]
Some(str) == [none |-> FALSE, s |-> str]
\* bool(x) of an Optional[str], and x or "*"
IsSet(opt) == ~opt.none /\ opt.s # ""
OrStar(opt) == IF IsSet(opt) THEN opt.s ELSE "*"

_enhance_single_arn(arn, account_id, region) ==
    LET parts == Split(arn, ":")
        p4 == IF IsSet(account_id) /\ parts[5] = "*" THEN account_id.s ELSE parts[5]
        p3 == IF IsSet(region) /\ parts[4] = "*" THEN region.s ELSE parts[4]
    IN  IF ~StartsWith(arn, "arn:aws:") THEN arn
        ELSE IF Len(parts) >= 6
        THEN Join([i \in DOMAIN parts |->
                      IF i = 5 THEN p4 ELSE IF i = 4 THEN p3 ELSE parts[i]], ":")
        ELSE arn

\* a statement with its Resource replaced
WithResource(statement, resource) ==
    [f \in DOMAIN statement |-> IF f = "Resource" THEN resource ELSE statement[f]]

_enhance_arn_patterns(policy_doc, account_id, region) ==
    IF ~IsSet(account_id) /\ ~IsSet(region) THEN policy_doc
    ELSE [policy_doc EXCEPT !.Statement =
            [i \in DOMAIN policy_doc.Statement |->
                LET statement == policy_doc.Statement[i]
                IN  IF statement.Resource = "*" THEN statement
                    ELSE WithResource(statement,
                            _enhance_single_arn(statement.Resource, account_id, region))]]

data_keywords == <<"get", "put", "post", "upload", "download">>
IsDataAction(action) ==
    LET lowered == Lower(action)
    IN  \E i \in DOMAIN data_keywords : Contains(lowered, data_keywords[i])

\* a merge that overwrites the existing condition block
OverwriteWithSecureTransport(items) ==
    <<[op |-> "Bool", key |-> "aws:SecureTransport", value |-> "true"]>>

\* existing_conditions after the merge of {"Bool": {"aws:SecureTransport": "true"}}
MergeSecureTransport(items) ==
    LET e == [op |-> "Bool", key |-> "aws:SecureTransport", value |-> "true"]
        IsBool(x) == x.op = "Bool"
        NotBool(x) == x.op # "Bool"
        NotSame(x) == x.key # e.key
    IN  IF \E i \in DOMAIN items : items[i].op = "Bool" /\ items[i].key = e.key
        THEN [i \in DOMAIN items |->
                 IF items[i].op = "Bool" /\ items[i].key = e.key THEN e ELSE items[i]]
        ELSE IF \E i \in DOMAIN items : items[i].op = "Bool"
        THEN LET last == CHOOSE i \in DOMAIN items :
                            /\ items[i].op = "Bool"
                            /\ \A j \in DOMAIN items : items[j].op = "Bool" => j <= i
             IN  SubSeq(items, 1, last) \o <<e>> \o SubSeq(items, last + 1, Len(items))
        ELSE Append(items, e)

SecuredStatement(statement) ==
    LET existing == IF "Condition" \in DOMAIN statement
                    THEN statement.Condition.items ELSE <<>>
        merged == DictCondition(MergeSecureTransport(existing))
    IN  IF \E i \in DOMAIN statement.Action : IsDataAction(statement.Action[i])
        THEN IF "Condition" \in DOMAIN statement
             THEN [statement EXCEPT !.Condition = merged]
             ELSE [Effect |-> statement.Effect, Action |-> statement.Action,
                   Resource |-> statement.Resource, Condition |-> merged]
        ELSE statement

_add_security_conditions(policy_doc) ==
    [policy_doc EXCEPT !.Statement =
        [i \in DOMAIN policy_doc.Statement |-> SecuredStatement(policy_doc.Statement[i])]]

\* the values of params that are strings starting with "s3://", in dict order
S3Uris(params) ==
    LET IsUri(e) == ~e.b /\ StartsWith(e.v, "s3://")
        uris == SelectSeq(params, IsUri)
    IN  [i \in DOMAIN uris |-> Replace(uris[i].v, "s3://", "")]

ObjectArnOf(s3_uri) ==
    LET parts == Split(s3_uri, "/")
        object_key == Join(SubSeq(parts, 2, Len(parts)), "/")
    IN  IF Contains(s3_uri, "/")
        THEN IF object_key # ""
             THEN "arn:aws:s3:::" \o parts[1] \o "/" \o object_key
             ELSE "arn:aws:s3:::" \o parts[1] \o "/*"
        ELSE "arn:aws:s3:::" \o s3_uri \o "/*"

\* the ARNs one parameter of instance_params / volume_params contributes; a
\* flag without a value holds True, and iterating True raises TypeError
IdArns(params, names, i, kind, reg, account) ==
    IF DictHas(params, names[i]) /\ ~DictGet(params, names[i]).b
    THEN <<"arn:aws:ec2:" \o reg \o ":" \o account \o ":" \o kind \o "/"
              \o DictGet(params, names[i]).v>>
    ELSE <<>>
IdRaises(params, names) ==
    \E i \in DOMAIN names : DictHas(params, names[i]) /\ DictGet(params, names[i]).b

\* f"{value}" of a parameter value
Fmt(e) == IF e.b THEN "True" ELSE e.v

\* raised: the TypeError of iterating a bool; arns: the list returned otherwise
_generate_arns_from_command_params(parsed_cmd, action, account_id, region) ==
    LET service == parsed_cmd.service
        params == parsed_cmd.parameters
        account == OrStar(account_id)
        reg == OrStar(region)
        uris == S3Uris(params)
        instance_params == <<"instance-ids", "instance-id">>
        volume_params == <<"volume-ids", "volume-id">>
        Ok(arns) == [raised |-> FALSE, arns |-> arns]
    IN  IF service = "s3"
        THEN IF action = "s3:ListBucket"
             THEN Ok([i \in DOMAIN uris |-> "arn:aws:s3:::" \o Split(uris[i], "/")[1]])
             ELSE IF action \in {"s3:GetObject", "s3:PutObject", "s3:DeleteObject"}
             THEN Ok([i \in DOMAIN uris |-> ObjectArnOf(uris[i])])
             ELSE Ok(<<>>)
        ELSE IF service = "ec2"
        THEN IF Contains(Lower(action), "instance")
             THEN IF IdRaises(params, instance_params)
                  THEN [raised |-> TRUE, arns |-> <<>>]
                  ELSE Ok(IdArns(params, instance_params, 1, "instance", reg, account)
                          \o IdArns(params, instance_params, 2, "instance", reg, account))
             ELSE IF Contains(Lower(action), "volume")
             THEN IF IdRaises(params, volume_params)
                  THEN [raised |-> TRUE, arns |-> <<>>]
                  ELSE Ok(IdArns(params, volume_params, 1, "volume", reg, account)
                          \o IdArns(params, volume_params, 2, "volume", reg, account))
             ELSE Ok(<<>>)
        ELSE IF service = "lambda"
        THEN IF DictHas(params, "function-name")
             THEN Ok(<<"arn:aws:lambda:" \o reg \o ":" \o account \o ":function:"
                          \o Fmt(DictGet(params, "function-name"))>>)
             ELSE Ok(<<>>)
        ELSE IF service = "dynamodb"
        THEN IF DictHas(params, "table-name")
             THEN Ok(<<"arn:aws:dynamodb:" \o reg \o ":" \o account \o ":table/"
                          \o Fmt(DictGet(params, "table-name"))>>)
             ELSE Ok(<<>>)
        ELSE IF service = "iam"
        THEN IF DictHas(params, "role-name")
             THEN Ok(<<"arn:aws:iam::" \o account \o ":role/"
                          \o Fmt(DictGet(params, "role-name"))>>)
             ELSE IF DictHas(params, "user-name")
             THEN Ok(<<"arn:aws:iam::" \o account \o ":user/"
                          \o Fmt(DictGet(params, "user-name"))>>)
             ELSE IF DictHas(params, "policy-name")
             THEN Ok(<<"arn:aws:iam::" \o account \o ":policy/"
                          \o Fmt(DictGet(params, "policy-name"))>>)
             ELSE Ok(<<>>)
        ELSE Ok(<<>>)

\* the same derivation with the parameter-driven synthesis tried before the
\* discovered ARNs
_create_resource_specific_permission_synthesis_first(impl, permission, parsed_cmd, account_id, region) ==
    LET arns == parsed_cmd.resource_arns
        use == IF impl = "src"
               THEN _should_use_specific_resource_src(permission.action, parsed_cmd.service)
               ELSE _should_use_specific_resource(permission.action, parsed_cmd.service)
        specific_resource ==
               IF impl = "src"
               THEN _select_appropriate_resource_arn_src(permission.action, arns)
               ELSE _select_appropriate_resource_arn(permission.action, arns)
        generated == _generate_arns_from_command_params(
                         parsed_cmd, permission.action, account_id, region)
        With(resource) == [raised |-> FALSE,
                           perm |-> [action |-> permission.action,
                                     resource |-> resource,
                                     condition |-> permission.condition,
                                     effect |-> permission.effect]]
    IN  IF generated.raised THEN [raised |-> TRUE, perm |-> permission]
        ELSE IF Len(generated.arns) > 0 THEN With(generated.arns[1])
        ELSE IF Len(arns) > 0 /\ use /\ specific_resource # ""
        THEN With(_enhance_single_arn(specific_resource, account_id, region))
        ELSE With(_enhance_single_arn(permission.resource, account_id, region))

\* raised: the TypeError of _generate_arns_from_command_params; perm: the
\* permission returned otherwise
_create_resource_specific_permission(impl, permission, parsed_cmd, account_id, region) ==
    LET arns == parsed_cmd.resource_arns
        use == IF impl = "src"
               THEN _should_use_specific_resource_src(permission.action, parsed_cmd.service)
               ELSE _should_use_specific_resource(permission.action, parsed_cmd.service)
        specific_resource ==
               IF impl = "src"
               THEN _select_appropriate_resource_arn_src(permission.action, arns)
               ELSE _select_appropriate_resource_arn(permission.action, arns)
        generated == _generate_arns_from_command_params(
                         parsed_cmd, permission.action, account_id, region)
        With(resource) == [raised |-> FALSE,
                           perm |-> [action |-> permission.action,
                                     resource |-> resource,
                                     condition |-> permission.condition,
                                     effect |-> permission.effect]]
    IN  IF Len(arns) > 0 /\ use /\ specific_resource # ""
        THEN With(_enhance_single_arn(specific_resource, account_id, region))
        ELSE IF generated.raised THEN [raised |-> TRUE, perm |-> permission]
        ELSE IF Len(generated.arns) > 0 THEN With(generated.arns[1])
        ELSE With(_enhance_single_arn(permission.resource, account_id, region))

\* ------------------------------------------------------------------------
\* Environment of one analyzer
\* ------------------------------------------------------------------------
\* The iteration order of a set of strings is fixed by the process's string
\* hash seed: list(set(arns)), list(services_used) and the loop over
\* services_used all see it.  Two seeds give both orders of a two-element set.
HashSeeds == {0, 1}
Reverse(seq) == [i \in DOMAIN seq |-> seq[Len(seq) + 1 - i]]
SetOrder(S, seed) == IF seed = 0 THEN SortStrings(S) ELSE Reverse(SortStrings(S))

\* what "aws help" and "aws <service> help" list when the AWS CLI is installed
CliCommands ==
    {<<"s3", "ls">>, <<"s3", "cp">>, <<"s3", "presign">>,
     <<"ec2", "describe-instances">>,
     <<"lambda", "invoke">>, <<"lambda", "create-function">>,
     <<"lambda", "get-account-settings">>,
     <<"braket", "get-device">>}

\* AWSCLIDocumentationScraper.discover_services / discover_commands; without
\* the CLI the subprocess fails and both return []
discover_services(aws_cli) ==
    IF aws_cli = "installed" THEN {c[1] : c \in CliCommands} ELSE {}
discover_commands(aws_cli, service) ==
    IF aws_cli = "installed" THEN {c[2] : c \in {d \in CliCommands : d[1] = service}}
    ELSE {}

\* The configurations of an analyzer.  impl: the copy of the class; the src
\* copy has no discovery and records its warnings always, as the backend copy
\* does with debug_mode.  aws_cli matters to discovery only.
Configs ==
    {[impl |-> "src", debug_mode |-> TRUE, enable_auto_discovery |-> FALSE,
      aws_cli |-> "absent"]}
    \cup {[impl |-> "backend", debug_mode |-> d, enable_auto_discovery |-> FALSE,
           aws_cli |-> "absent"] : d \in BOOLEAN}
    \cup {[impl |-> "backend", debug_mode |-> FALSE, enable_auto_discovery |-> TRUE,
           aws_cli |-> c] : c \in {"absent", "installed"}}

\* ------------------------------------------------------------------------
\* Permission lookup of the analyzer's permissions_db
\* ------------------------------------------------------------------------
\* EnhancedPermissionsDatabase._discover_permissions
_discover_permissions(aws_cli, service, action) ==
    IF service \notin discover_services(aws_cli) THEN NoPermissions
    ELSE IF action \notin discover_commands(aws_cli, service) THEN NoPermissions
    ELSE CommandPermissions(map_command_to_permissions(service, action))

\* a lookup that asks the overlay before the manual catalog
EnhancedLookupOverlayFirst(aws_cli, auto_cache, service, action) ==
    LET discovered_perms == _discover_permissions(aws_cli, service, action)
        confidence == _determine_confidence(service, action)
    IN  IF <<service, action>> \in auto_cache
        THEN [perms |-> CommandPermissions(map_command_to_permissions(service, action)),
              auto_cache |-> auto_cache]
        ELSE IF discovered_perms.found
        THEN [perms |-> discovered_perms,
              auto_cache |-> IF confidence \in {"high", "medium"}
                             THEN auto_cache \cup {<<service, action>>}
                             ELSE auto_cache]
        ELSE [perms |-> get_permissions_object(service, action), auto_cache |-> auto_cache]

\* EnhancedPermissionsDatabase.get_permissions_object: the permissions and the
\* cache after the call.  auto_cache is the set of cached <<service, command>>
\* keys; an entry holds what map_command_to_permissions gave.
EnhancedLookup(aws_cli, auto_cache, service, action) ==
    LET manual_perms == get_permissions_object(service, action)
        discovered_perms == _discover_permissions(aws_cli, service, action)
        confidence == _determine_confidence(service, action)
    IN  IF manual_perms.found
        THEN [perms |-> manual_perms, auto_cache |-> auto_cache]
        ELSE IF <<service, action>> \in auto_cache
        THEN [perms |-> CommandPermissions(map_command_to_permissions(service, action)),
              auto_cache |-> auto_cache]
        ELSE IF discovered_perms.found
        THEN [perms |-> discovered_perms,
              auto_cache |-> IF confidence \in {"high", "medium"}
                             THEN auto_cache \cup {<<service, action>>}
                             ELSE auto_cache]
        ELSE [perms |-> NoPermissions, auto_cache |-> auto_cache]

\* self.permissions_db.get_permissions_object of the configured analyzer
Lookup(cfg, auto_cache, service, action) ==
    IF cfg.enable_auto_discovery
    THEN EnhancedLookup(cfg.aws_cli, auto_cache, service, action)
    ELSE [perms |-> get_permissions_object(service, action), auto_cache |-> auto_cache]

\* self.permissions_db.get_supported_services of the configured analyzer
SupportedServices(cfg, auto_cache) ==
    IF cfg.enable_auto_discovery
    THEN get_supported_services \cup {k[1] : k \in auto_cache}
    ELSE get_supported_services

\* an analyzer whose doc scraper is unavailable
_get_scraper_permissions_unavailable(parsed_cmd) == <<>>

\* _get_scraper_permissions: the cached list equals the recomputed one, so
\* only the keys of _scraper_cache are state
_get_scraper_permissions(parsed_cmd) ==
    map_command_to_permissions(parsed_cmd.service, parsed_cmd.action)

_try_scraper_for_unknown_service(aws_cli, parsed_cmd) ==
    IF /\ parsed_cmd.service \in discover_services(aws_cli)
       /\ parsed_cmd.action \in discover_commands(aws_cli, parsed_cmd.service)
    THEN map_command_to_permissions(parsed_cmd.service, parsed_cmd.action)
    ELSE <<>>

\* ------------------------------------------------------------------------
\* analyze_commands
\* ------------------------------------------------------------------------
\* The command texts the operations are called with
Texts ==
    {"aws s3 ls s3://my-bucket/prefix",
     "aws s3 cp file.txt s3://bucket-a/x",
     "aws ec2 describe-instances --instance-ids i-0123456789abcdef0",
     "aws ec2 describe-instances --instance-ids",
     "aws lambda get-account-settings",
     "aws lambda create-function --function-name f",
     "aws braket get-device",
     "aws braket get-widget",
     "aws unsupported-service some-action",
     "invalid command"}

\* Texts given to parse_command alone: an optional prefix, then at most
\* MaxTokens tokens separated by single spaces
MaxTokens == 3
Prefixes == {"", "aws ", " AWS  "}
Tokens == {"s3", "ls", "invalid", "s3://b/k", "--all"}
TokenLists == UNION {[1..n -> Tokens] : n \in 0..MaxTokens}
CommandTexts == {prefix \o Join(tokens, " ") : prefix \in Prefixes, tokens \in TokenLists}

\* Commands given to _customize_permission_resource alone, besides Texts:
\* a command of one service that names a resource of another
CrossServiceTexts == {"aws lambda invoke s3://my-bucket/payload out.json"}

\* parse_command and the set _extract_arns deduplicates, per text
ParseTable == [t \in Texts \cup CommandTexts \cup CrossServiceTexts |-> parse_command(t)]
ArnTable ==
    [t \in Texts \cup CommandTexts \cup CrossServiceTexts |-> ExtractedArns(Strip(t))]

\* self.parser.parse_command(command_str): the ParsedCommand, or ok = FALSE
\* for the ValueError
ParsedCommand(command_str, seed) ==
    Bind(ParseTable[command_str], LAMBDA p :
        [ok |-> p.ok, service |-> p.service, action |-> p.action,
         parameters |-> p.parameters,
         resource_arns |-> IF p.ok THEN SetOrder(ArnTable[command_str], seed) ELSE <<>>,
         raw_command |-> p.raw_command])

\* repr of a list of strings, as an f-string renders it
ListRepr(strs) == "[" \o Join([i \in DOMAIN strs |-> "'" \o strs[i] \o "'"], ", ") \o "]"
Actions(perms) == [i \in DOMAIN perms |-> perms[i].action]

\* the locals of analyze_commands before the loop, with the analyzer's caches
Locals(scraper_cache, auto_cache) ==
    [parsed_commands |-> <<>>, all_permissions |-> <<>>, missing_commands |-> <<>>,
     warnings |-> <<>>, all_resource_arns |-> <<>>, services_used |-> {},
     scraper_cache |-> scraper_cache, auto_cache |-> auto_cache]

\* an except branch that skips the failing text without recording a warning
ParseFailedUnrecorded(acc, command_str) == acc

\* the except branch of the loop
ParseFailed(acc, command_str) ==
    [acc EXCEPT !.warnings = Append(@,
        "Failed to parse command '" \o command_str
            \o "': Invalid AWS CLI command format: " \o Strip(command_str))]

\* the branch "if cmd_perms"
Found(cfg, strict_resources, acc, parsed_cmd, cmd_perms) ==
    LET command_permissions ==
            [i \in DOMAIN cmd_perms.permissions |->
                _customize_permission_resource(cfg.impl, cmd_perms.permissions[i],
                                               parsed_cmd, strict_resources)]
        enhanced_permissions ==
            IF cfg.impl = "src"
            THEN _enhance_with_additional_permissions_src(command_permissions, parsed_cmd)
            ELSE _enhance_with_additional_permissions(command_permissions, parsed_cmd)
    IN  [acc EXCEPT !.all_permissions = @ \o enhanced_permissions,
                    !.all_resource_arns = @ \o parsed_cmd.resource_arns]

\* the branch of a supported service whose command the catalog lacks
FallbackSupported(cfg, acc, command_str, parsed_cmd) ==
    LET fallback_perm == _generate_fallback_permission(parsed_cmd)
    IN  [acc EXCEPT
            !.all_permissions = Append(@, fallback_perm),
            !.warnings = IF cfg.debug_mode
                         THEN Append(@, "Command '" \o command_str
                                 \o "' not found in permissions database. "
                                 \o "Generated fallback permission: "
                                 \o fallback_perm.action)
                         ELSE @]

\* the branch of an unsupported service, src copy: a warning and nothing else
Unsupported_src(acc, command_str, parsed_cmd) ==
    [acc EXCEPT !.warnings = Append(@,
        "Service '" \o parsed_cmd.service \o "' is not supported. "
            \o "No permissions generated for command: " \o command_str)]

\* the branch of an unsupported service, backend copy
Unsupported(cfg, acc, command_str, parsed_cmd) ==
    LET scraper_permissions == _get_scraper_permissions(parsed_cmd)
        fallback_permissions == _try_scraper_for_unknown_service(cfg.aws_cli, parsed_cmd)
        fallback_perm == _generate_fallback_permission(parsed_cmd)
        cached == [acc EXCEPT !.scraper_cache =
                                 @ \cup {<<parsed_cmd.service, parsed_cmd.action>>}]
        Warn(a, text) == IF cfg.debug_mode
                         THEN [a EXCEPT !.warnings = Append(@, text)] ELSE a
    IN  IF Len(scraper_permissions) > 0
        THEN Warn([cached EXCEPT !.all_permissions = @ \o scraper_permissions],
                  "Command '" \o command_str \o "' not found in permissions database. "
                      \o "Used doc scraper fallback: "
                      \o ListRepr(Actions(scraper_permissions)))
        ELSE IF Len(fallback_permissions) > 0
        THEN Warn([cached EXCEPT !.all_permissions = @ \o fallback_permissions],
                  "Unknown service '" \o parsed_cmd.service \o "' - used doc scraper: "
                      \o ListRepr(Actions(fallback_permissions)))
        ELSE Warn([cached EXCEPT !.all_permissions = Append(@, fallback_perm)],
                  "Unknown command '" \o command_str
                      \o "' - generated basic fallback: " \o fallback_perm.action)

\* one iteration of the loop of analyze_commands
\* the try block after the lookup: looked is what get_permissions_object
\* returned and the discovery cache after it
Looked(cfg, strict_resources, acc, command_str, parsed_cmd, looked) ==
    LET acc1 == [acc EXCEPT !.parsed_commands = Append(@, parsed_cmd),
                            !.services_used = @ \cup {parsed_cmd.service},
                            !.auto_cache = looked.auto_cache]
        acc2 == [acc1 EXCEPT !.missing_commands = Append(@, command_str)]
    IN  IF looked.perms.found
        THEN Found(cfg, strict_resources, acc1, parsed_cmd, looked.perms)
        ELSE IF parsed_cmd.service \in SupportedServices(cfg, looked.auto_cache)
        THEN FallbackSupported(cfg, acc2, command_str, parsed_cmd)
        ELSE IF cfg.impl = "src" THEN Unsupported_src(acc2, command_str, parsed_cmd)
        ELSE Unsupported(cfg, acc2, command_str, parsed_cmd)

\* the try block after parse_command returned or raised
Parsed(cfg, strict_resources, acc, command_str, parsed_cmd) ==
    IF ~parsed_cmd.ok THEN ParseFailed(acc, command_str)
    ELSE Looked(cfg, strict_resources, acc, command_str, parsed_cmd,
                Lookup(cfg, acc.auto_cache, parsed_cmd.service, parsed_cmd.action))

LoopBody(cfg, seed, strict_resources, acc, command_str) ==
    Parsed(cfg, strict_resources, acc, command_str, ParsedCommand(command_str, seed))

RECURSIVE Loop(_, _, _, _, _)
Loop(cfg, seed, strict_resources, acc, commands) ==
    IF Len(commands) = 0 THEN acc
    ELSE Loop(cfg, seed, strict_resources,
              LoopBody(cfg, seed, strict_resources, acc, Head(commands)),
              Tail(commands))

\* the AnalysisResult built from the locals and the deduplicated permissions
AnalysisResult(seed, acc, unique_permissions) ==
    [result |->
        [commands |-> acc.parsed_commands,
         required_permissions |-> unique_permissions,
         policy_document |-> _generate_policy_document(unique_permissions),
         missing_commands |-> acc.missing_commands,
         warnings |-> acc.warnings,
         resource_arns |-> SetOrder(Range(acc.all_resource_arns), seed),
         services_used |-> SetOrder(acc.services_used, seed)],
     scraper_cache |-> acc.scraper_cache,
     auto_cache |-> acc.auto_cache]

\* what analyze_commands does after its loop
AfterLoop(seed, include_read_only, acc) ==
    AnalysisResult(seed, acc,
        _deduplicate_permissions(
            IF include_read_only
            THEN acc.all_permissions
                    \o _get_read_only_permissions(SetOrder(acc.services_used, seed))
            ELSE acc.all_permissions))

\* analyze_commands: the AnalysisResult and the analyzer's caches after it
analyze_commands(cfg, seed, scraper_cache, auto_cache, commands, strict_resources, include_read_only) ==
    AfterLoop(seed, include_read_only,
              Loop(cfg, seed, strict_resources, Locals(scraper_cache, auto_cache), commands))

\* ------------------------------------------------------------------------
\* The other public operations.  Each gives the value returned or the
\* exception raised, and the analyzer's caches after the call.
\* ------------------------------------------------------------------------
Returned(value, analysed) ==
    [raised |-> "", value |-> value,
     scraper_cache |-> analysed.scraper_cache, auto_cache |-> analysed.auto_cache]
Raised(exception, analysed) ==
    [raised |-> exception, value |-> <<>>,
     scraper_cache |-> analysed.scraper_cache, auto_cache |-> analysed.auto_cache]

analyze_command(cfg, seed, scraper_cache, auto_cache, command, strict_resources, include_read_only) ==
    Bind(analyze_commands(cfg, seed, scraper_cache, auto_cache, <<command>>,
                          strict_resources, include_read_only), LAMBDA analysed :
        LET result == analysed.result
            parsed_cmd == result.commands[1]
        IN  IF Len(result.commands) = 0 THEN Raised("ValueError", analysed)
            ELSE Returned(
                    [service |-> parsed_cmd.service,
                     action |-> parsed_cmd.action,
                     original_command |-> command,
                     required_permissions |->
                         [i \in DOMAIN result.required_permissions |->
                             [action |-> result.required_permissions[i].action,
                              resource |-> result.required_permissions[i].resource,
                              condition |-> result.required_permissions[i].condition]],
                     policy_document |-> result.policy_document,
                     resource_arns |-> result.resource_arns,
                     warnings |-> result.warnings],
                    analysed))

generate_least_privilege_policy(cfg, seed, scraper_cache, auto_cache, commands, account_id, region) ==
    Bind(analyze_commands(cfg, seed, scraper_cache, auto_cache, commands,
                          TRUE, TRUE), LAMBDA analysed :
    Bind(IF IsSet(account_id) \/ IsSet(region)
         THEN _enhance_arn_patterns(analysed.result.policy_document,
                                    account_id, region)
         ELSE analysed.result.policy_document, LAMBDA policy_doc :
        Returned(_add_security_conditions(policy_doc), analysed)))

\* the inner loop of generate_resource_specific_policy over one command's
\* catalog permissions
RECURSIVE EnhancePerms(_, _, _, _, _)
EnhancePerms(impl, perms, cmd, account_id, region) ==
    IF Len(perms) = 0 THEN [raised |-> FALSE, permissions |-> <<>>]
    ELSE Bind(_create_resource_specific_permission(
                  impl, Head(perms), cmd, account_id, region), LAMBDA first :
         Bind(EnhancePerms(impl, Tail(perms), cmd, account_id, region), LAMBDA rest :
             IF first.raised \/ rest.raised
             THEN [raised |-> TRUE, permissions |-> <<>>]
             ELSE [raised |-> FALSE, permissions |-> <<first.perm>> \o rest.permissions]))

\* the outer loop, over analysis.commands
RECURSIVE EnhanceCommands(_, _, _, _, _)
EnhanceCommands(cfg, auto_cache, cmds, account_id, region) ==
    IF Len(cmds) = 0
    THEN [raised |-> FALSE, permissions |-> <<>>, auto_cache |-> auto_cache]
    ELSE Bind(Head(cmds), LAMBDA cmd :
         Bind(Lookup(cfg, auto_cache, cmd.service, cmd.action), LAMBDA looked :
         Bind(IF looked.perms.found
              THEN EnhancePerms(cfg.impl, looked.perms.permissions, cmd,
                                account_id, region)
              ELSE [raised |-> FALSE, permissions |-> <<>>], LAMBDA mine :
         Bind(EnhanceCommands(cfg, looked.auto_cache, Tail(cmds),
                              account_id, region), LAMBDA rest :
             IF mine.raised
             THEN [raised |-> TRUE, permissions |-> <<>>, auto_cache |-> looked.auto_cache]
             ELSE [raised |-> rest.raised,
                   permissions |-> mine.permissions \o rest.permissions,
                   auto_cache |-> rest.auto_cache]))))

\* metadata that counts every analysed command as one with discovered ARNs
PolicyMetadataCountingAll(commands, analysis, account_id, region) ==
    [resource_specific |-> TRUE,
     account_id |-> account_id,
     region |-> region,
     commands_analyzed |-> Len(commands),
     specific_resources_found |-> Len(analysis.commands)]

\* policy_doc["_metadata"]
PolicyMetadata(commands, analysis, account_id, region) ==
    LET WithArns(cmd) == Len(cmd.resource_arns) > 0
    IN  [resource_specific |-> TRUE,
         account_id |-> account_id,
         region |-> region,
         commands_analyzed |-> Len(commands),
         specific_resources_found |-> Len(SelectSeq(analysis.commands, WithArns))]

generate_resource_specific_policy(cfg, seed, scraper_cache, auto_cache, commands, account_id, region, strict_mode) ==
    Bind(analyze_commands(cfg, seed, scraper_cache, auto_cache, commands,
                          strict_mode, TRUE), LAMBDA analysed :
    Bind(EnhanceCommands(cfg, analysed.auto_cache, analysed.result.commands,
                         account_id, region), LAMBDA enhanced :
    Bind(_generate_policy_document(
             _deduplicate_permissions(enhanced.permissions)), LAMBDA policy_doc :
        LET after == [analysed EXCEPT !.auto_cache = enhanced.auto_cache]
        IN  IF enhanced.raised THEN Raised("TypeError", after)
            ELSE Returned(
                    [Version |-> policy_doc.Version,
                     Statement |-> policy_doc.Statement,
                     _metadata |-> PolicyMetadata(commands, analysed.result,
                                                  account_id, region)],
                    after))))

\* perm.action.split(":")[0] if ":" in perm.action else "unknown"
PermissionService(action) ==
    IF Contains(action, ":") THEN Split(action, ":")[1] ELSE "unknown"

\* the summary: one entry per service in the order the services first occur
\* in analysis.commands, its three sets listed in iteration order
get_service_summary(cfg, seed, scraper_cache, auto_cache, commands) ==
    Bind(analyze_commands(cfg, seed, scraper_cache, auto_cache, commands,
                          FALSE, TRUE), LAMBDA analysed :
    LET analysis == analysed.result
        cmds == analysis.commands
        perms == analysis.required_permissions
        services == Unique([i \in DOMAIN cmds |-> cmds[i].service])
        Entry(service) ==
            [service |-> service,
             actions |-> SetOrder({cmds[i].action :
                                      i \in {j \in DOMAIN cmds : cmds[j].service = service}},
                                  seed),
             permissions |-> SetOrder({perms[i].action :
                                      i \in {j \in DOMAIN perms :
                                                PermissionService(perms[j].action) = service}},
                                  seed),
             resources |-> SetOrder(UNION {Range(cmds[i].resource_arns) :
                                      i \in {j \in DOMAIN cmds : cmds[j].service = service}},
                                  seed)]
    IN  Returned([i \in DOMAIN services |-> Entry(services[i])], analysed))

\* ------------------------------------------------------------------------
\* State machine: one analyzer object and the calls made on it
\* ------------------------------------------------------------------------
VARIABLES
    cfg,             \* the copy of the class and its constructor arguments
    seed,            \* the string hash seed of the process
    scraper_cache,   \* keys of self._scraper_cache
    auto_cache,      \* keys of self.permissions_db.auto_cache.cache
    call,            \* the operation last called and its arguments
    ret,             \* what that call returned or raised
    pc,              \* per thread: its operation on the AutoDiscoveryCache
    cache_lock       \* the holder of AutoDiscoveryCache.cache_lock, or "free"

vars == <<cfg, seed, scraper_cache, auto_cache, call, ret, pc, cache_lock>>

\* the lists of at most MaxBatch commands
Batches == UNION {[1..n -> Texts] : n \in 0..MaxBatch}
\* the account_id and region arguments: both omitted, or both given
Scopes == {[account_id |-> None, region |-> None],
           [account_id |-> Some("111111111111"), region |-> Some("us-east-1")]}

\* The threads that share one AutoDiscoveryCache: two threads that run the
\* analyzer, the background preloader, and a thread cache_permissions spawns
\* for _save_cache
Threads == {"analyzer", "analyzer2", "preloader", "save"}
Idle == [op |-> "none", at |-> "idle", changed |-> FALSE, raised |-> ""]

NoCall == [op |-> "none"]
NoRet == [raised |-> "", value |-> <<>>]

Init ==
    /\ cfg \in Configs
    /\ seed \in HashSeeds
    /\ scraper_cache = {}
    /\ auto_cache = {}
    /\ call = NoCall
    /\ ret = NoRet
    /\ pc = [t \in Threads |-> Idle]
    /\ cache_lock = "free"

\* the effect of a finished call on the analyzer and on the caller
Finish(c, out) ==
    /\ call' = c
    /\ ret' = [raised |-> out.raised, value |-> out.value]
    /\ scraper_cache' = out.scraper_cache
    /\ auto_cache' = out.auto_cache
    /\ UNCHANGED <<cfg, seed, pc, cache_lock>>

AnalyzeCommands ==
    /\ call = NoCall
    /\ \E commands \in Batches, strict_resources \in BOOLEAN, include_read_only \in BOOLEAN :
          \E analysed \in {analyze_commands(cfg, seed, scraper_cache, auto_cache, commands,
                                               strict_resources, include_read_only)} :
              Finish([op |-> "analyze_commands", commands |-> commands,
                      strict_resources |-> strict_resources,
                      include_read_only |-> include_read_only],
                     Returned(analysed.result, analysed))

AnalyzeCommand ==
    /\ call = NoCall
    /\ \E command \in Texts, strict_resources \in BOOLEAN, include_read_only \in BOOLEAN :
          Finish([op |-> "analyze_command", commands |-> <<command>>,
                  strict_resources |-> strict_resources,
                  include_read_only |-> include_read_only],
                 analyze_command(cfg, seed, scraper_cache, auto_cache, command,
                                 strict_resources, include_read_only))

GenerateLeastPrivilegePolicy ==
    /\ call = NoCall
    /\ \E commands \in Batches, scope \in Scopes :
          Finish([op |-> "generate_least_privilege_policy", commands |-> commands,
                  account_id |-> scope.account_id, region |-> scope.region],
                 generate_least_privilege_policy(cfg, seed, scraper_cache, auto_cache,
                                                 commands, scope.account_id,
                                                 scope.region))

GenerateResourceSpecificPolicy ==
    /\ call = NoCall
    /\ \E commands \in Batches, scope \in Scopes, strict_mode \in BOOLEAN :
          Finish([op |-> "generate_resource_specific_policy", commands |-> commands,
                  account_id |-> scope.account_id, region |-> scope.region,
                  strict_mode |-> strict_mode],
                 generate_resource_specific_policy(cfg, seed, scraper_cache, auto_cache,
                                                   commands, scope.account_id,
                                                   scope.region, strict_mode))

GetServiceSummary ==
    /\ call = NoCall
    /\ \E commands \in Batches :
          Finish([op |-> "get_service_summary", commands |-> commands],
                 get_service_summary(cfg, seed, scraper_cache, auto_cache, commands))

\* the caller drops the result; the analyzer keeps its caches
Forget ==
    /\ call # NoCall
    /\ call' = NoCall
    /\ ret' = NoRet
    /\ UNCHANGED <<cfg, seed, scraper_cache, auto_cache, pc, cache_lock>>

Next ==
    \/ AnalyzeCommands
    \/ AnalyzeCommand
    \/ GenerateLeastPrivilegePolicy
    \/ GenerateResourceSpecificPolicy
    \/ GetServiceSummary
    \/ Forget

Spec == Init /\ [][Next]_vars

\* ------------------------------------------------------------------------
\* Second specification: the same analyzer, on which the caller invokes the
\* parser, its parameter parsing and its ARN extraction, the deduplication
\* step, the policy rendering, the hardening step and the resource
\* customization directly, besides generate_least_privilege_policy
\* ------------------------------------------------------------------------
MaxPermissions == 3
SecureTransport ==
    DictCondition(<<[op |-> "Bool", key |-> "aws:SecureTransport", value |-> "true"]>>)
PermissionPool ==
    {IAMPermission("s3:GetObject", "*"),
     IAMPermission("s3:GetObject", "arn:aws:s3:::b/*"),
     IAMPermission("s3:GetObject", "arn:aws:s3:::a/*"),
     IAMPermission("s3:ListBucket", "*"),
     [IAMPermission("s3:GetObject", "*") EXCEPT !.condition = SecureTransport],
     [IAMPermission("s3:GetObject", "*") EXCEPT !.effect = "Deny"]}
PermissionLists == UNION {[1..n -> PermissionPool] : n \in 0..MaxPermissions}

\* self.parser.parse_command(command)
ParseCommand ==
    /\ call = NoCall
    /\ \E command \in CommandTexts :
          LET parsed == ParsedCommand(command, seed)
          IN  /\ call' = [op |-> "parse_command", command |-> command]
              /\ ret' = IF parsed.ok
                        THEN [raised |-> "", value |-> [f \in DOMAIN parsed \ {"ok"} |-> parsed[f]]]
                        ELSE [raised |-> "ValueError", value |-> <<>>]
              /\ UNCHANGED <<cfg, seed, scraper_cache, auto_cache, pc, cache_lock>>

\* the parameter strings given to _parse_parameters alone: at most
\* MaxParamTokens tokens separated by single spaces
MaxParamTokens == 4
ParamTokens == {"--f", "v", "--g", "f", "--n=v", "-5"}
ParamStrings ==
    {Join(tokens, " ") : tokens \in UNION {[1..n -> ParamTokens] : n \in 0..MaxParamTokens}}

\* the command texts given to _extract_arns alone: a bucket alone, a bucket
\* with a trailing slash, a key, a key with a '/', the same URI twice
UriTexts ==
    {"aws s3 ls s3://b", "aws s3 ls s3://b/", "aws s3 ls s3://b/k",
     "aws s3 cp s3://b/d/k f", "aws s3 cp s3://b/k s3://b/k", "aws s3 cp s3://b/k s3://c",
     "aws s3 cp s3://b s3://b/k"}

\* self.parser._extract_arns(command): list(set(arns)) in the order of the seed
ExtractArns ==
    /\ call = NoCall
    /\ \E command \in UriTexts :
          /\ call' = [op |-> "_extract_arns", command |-> command]
          /\ ret' = [raised |-> "", value |-> SetOrder(ExtractedArns(command), seed)]
          /\ UNCHANGED <<cfg, seed, scraper_cache, auto_cache, pc, cache_lock>>

\* self.parser._parse_parameters(params_str)
ParseParameters ==
    /\ call = NoCall
    /\ \E params_str \in ParamStrings :
          /\ call' = [op |-> "_parse_parameters", params_str |-> params_str]
          /\ ret' = [raised |-> "", value |-> _parse_parameters(params_str)]
          /\ UNCHANGED <<cfg, seed, scraper_cache, auto_cache, pc, cache_lock>>

\* self._deduplicate_permissions(permissions)
DeduplicatePermissions ==
    /\ call = NoCall
    /\ \E permissions \in PermissionLists :
          /\ call' = [op |-> "_deduplicate_permissions", permissions |-> permissions]
          /\ ret' = [raised |-> "", value |-> _deduplicate_permissions(permissions)]
          /\ UNCHANGED <<cfg, seed, scraper_cache, auto_cache, pc, cache_lock>>

\* the statements given to _add_security_conditions alone: with and without
\* a data verb, with and without a Condition of the same or another operator
MaxStatements == 2
StatementPool ==
    LET Statement(action, effect) ==
            [Effect |-> effect, Action |-> <<action>>, Resource |-> "*"]
        Conditioned(action, op, key, value) ==
            [Effect |-> "Allow", Action |-> <<action>>, Resource |-> "*",
             Condition |-> DictCondition(<<[op |-> op, key |-> key, value |-> value]>>)]
    IN  {Statement("s3:GetObject", "Allow"),
         Statement("s3:ListBucket", "Allow"),
         Statement("s3:PutObject", "Deny"),
         Conditioned("s3:GetObject", "StringEquals", "aws:RequestedRegion", "us-east-1"),
         Conditioned("s3:GetObject", "Bool", "aws:SecureTransport", "false"),
         Conditioned("s3:GetObject", "Bool", "aws:MultiFactorAuthPresent", "true"),
         Conditioned("s3:ListBucket", "StringEquals", "aws:RequestedRegion", "us-east-1")}
PolicyDocuments ==
    {[Version |-> "2012-10-17", Statement |-> statements] :
        statements \in UNION {[1..n -> StatementPool] : n \in 0..MaxStatements}}

\* the catalog permissions given to _customize_permission_resource alone:
\* on and off the whitelists, with and without a condition, Allow and Deny
CatalogPermissionPool ==
    {IAMPermission("s3:ListBucket", "*"),
     IAMPermission("s3:ListAllMyBuckets", "*"),
     IAMPermission("s3:GetObject", "*"),
     IAMPermission("s3:PutObject", "arn:aws:s3:::*/*"),
     IAMPermission("ec2:DescribeInstances", "*"),
     IAMPermission("ec2:DescribeInstanceStatus", "*"),
     IAMPermission("lambda:CreateFunction", "*"),
     IAMPermission("lambda:InvokeFunction", "*"),
     IAMPermission("iam:PassRole", "*"),
     [IAMPermission("s3:GetObject", "*") EXCEPT !.condition = SecureTransport],
     [IAMPermission("s3:PutObject", "*") EXCEPT !.effect = "Deny"]}

\* self._customize_permission_resource(permission, parsed_cmd, strict_resources)
CustomizePermissionResource ==
    /\ call = NoCall
    /\ \E permission \in CatalogPermissionPool, command \in Texts \cup CrossServiceTexts,
          strict_resources \in BOOLEAN :
          /\ ParseTable[command].ok
          /\ \E parsed \in {ParsedCommand(command, seed)} :
                /\ call' = [op |-> "_customize_permission_resource",
                            permission |-> permission,
                            parsed_cmd |-> [f \in DOMAIN parsed \ {"ok"} |-> parsed[f]],
                            strict_resources |-> strict_resources]
                /\ ret' = [raised |-> "",
                           value |-> _customize_permission_resource(cfg.impl, permission,
                                                                    parsed, strict_resources)]
          /\ UNCHANGED <<cfg, seed, scraper_cache, auto_cache, pc, cache_lock>>

\* self._generate_policy_document(permissions)
GeneratePolicyDocument ==
    /\ call = NoCall
    /\ \E permissions \in PermissionLists :
          /\ call' = [op |-> "_generate_policy_document", permissions |-> permissions]
          /\ ret' = [raised |-> "", value |-> _generate_policy_document(permissions)]
          /\ UNCHANGED <<cfg, seed, scraper_cache, auto_cache, pc, cache_lock>>

\* self._add_security_conditions(policy_doc)
AddSecurityConditions ==
    /\ call = NoCall
    /\ \E policy_doc \in PolicyDocuments :
          /\ call' = [op |-> "_add_security_conditions", policy_doc |-> policy_doc]
          /\ ret' = [raised |-> "", value |-> _add_security_conditions(policy_doc)]
          /\ UNCHANGED <<cfg, seed, scraper_cache, auto_cache, pc, cache_lock>>

StepNext ==
    \/ ParseCommand
    \/ ExtractArns
    \/ ParseParameters
    \/ DeduplicatePermissions
    \/ GeneratePolicyDocument
    \/ AddSecurityConditions
    \/ CustomizePermissionResource
    \/ GenerateLeastPrivilegePolicy
    \/ Forget

StepSpec == Init /\ [][StepNext]_vars

\* ------------------------------------------------------------------------
\* Third specification: the threads of one process on the AutoDiscoveryCache
\* of an analyzer with discovery.  An operation is entered, acts on
\* self.cache, and is left; the operations written under 'with
\* self.cache_lock' are entered by taking the lock and left by releasing it.
\* ------------------------------------------------------------------------
HasCache == cfg.impl = "backend" /\ cfg.enable_auto_discovery

\* the operations whose body is under 'with self.cache_lock'
LockedOps == {"get_cached_permissions", "cache_permissions", "cleanup_old_entries",
              "get_stats", "_save_cache"}
\* the operations that touch self.cache outside any lock
UnlockedOps == {"is_cached", "get_cached_services", "get_cached_commands"}
\* the operations that iterate over self.cache
IteratingOps == {"get_cached_services", "get_cached_commands", "get_stats", "_save_cache"}
\* what each thread calls: the analyzer through get_permissions_object,
\* get_supported_services and the public methods of the cache, the preloader
\* through preload_high_priority_services, the save thread _save_cache alone
OpsOf(t) ==
    CASE t = "preloader" -> {"is_cached"}
      [] t = "save" -> {"_save_cache"}
      [] OTHER -> {"get_cached_permissions", "cache_permissions", "cleanup_old_entries",
                   "get_stats", "get_cached_services", "get_cached_commands", "is_cached"}

\* the keys cache_permissions is given: discoveries of high or medium confidence
CacheableKeys ==
    {key \in CliCommands : /\ key[2] \notin CatalogActions(key[1])
                           /\ _determine_confidence(key[1], key[2]) \in {"high", "medium"}}

\* self.cache changed under the threads that are iterating over it unlocked
Disturbed(t) ==
    [u \in Threads |->
        IF u # t /\ pc[u].at = "inside" /\ pc[u].op \in UnlockedOps
        THEN [pc[u] EXCEPT !.changed = TRUE]
        ELSE pc[u]]

\* is_cached, get_cached_services, get_cached_commands: the first line
EnterUnlocked ==
    /\ HasCache
    /\ \E t \in Threads, op \in UnlockedOps :
          /\ op \in OpsOf(t)
          /\ pc[t].at = "idle"
          /\ pc' = [pc EXCEPT ![t] = [op |-> op, at |-> "inside", changed |-> FALSE,
                                      raised |-> ""]]
          /\ UNCHANGED <<cfg, seed, scraper_cache, auto_cache, call, ret, cache_lock>>

\* the return of an unlocked operation; an iteration over a dict that changed
\* size meanwhile raises RuntimeError or completes
LeaveUnlocked ==
    /\ \E t \in Threads :
          /\ pc[t].at = "inside"
          /\ pc[t].op \in UnlockedOps
          /\ \E raised \in (IF pc[t].changed /\ pc[t].op \in IteratingOps
                            THEN {"", "RuntimeError"} ELSE {""}) :
                pc' = [pc EXCEPT ![t] = [Idle EXCEPT !.raised = raised]]
          /\ UNCHANGED <<cfg, seed, scraper_cache, auto_cache, call, ret, cache_lock>>

\* with self.cache_lock: __enter__; the save thread runs once it is spawned
AcquireCacheLock ==
    /\ HasCache
    /\ cache_lock = "free"
    /\ \E t \in Threads, op \in LockedOps :
          /\ op \in OpsOf(t)
          /\ IF t = "save" THEN pc[t].at = "spawned" ELSE pc[t].at = "idle"
          /\ cache_lock' = t
          /\ pc' = [pc EXCEPT ![t] = [op |-> op, at |-> "inside", changed |-> FALSE,
                                      raised |-> ""]]
          /\ UNCHANGED <<cfg, seed, scraper_cache, auto_cache, call, ret>>

\* self.cache[cache_key] = cached_perm
InsertEntry ==
    /\ \E t \in Threads, key \in CacheableKeys :
          /\ cache_lock = t
          /\ pc[t].op = "cache_permissions"
          /\ pc[t].at = "inside"
          /\ auto_cache' = auto_cache \cup {key}
          /\ pc' = [Disturbed(t) EXCEPT ![t].at = "written"]
          /\ UNCHANGED <<cfg, seed, scraper_cache, call, ret, cache_lock>>

\* for key in old_keys: del self.cache[key]
DeleteOldEntries ==
    /\ \E t \in Threads, old_keys \in SUBSET auto_cache :
          /\ cache_lock = t
          /\ pc[t].op = "cleanup_old_entries"
          /\ pc[t].at = "inside"
          /\ auto_cache' = auto_cache \ old_keys
          /\ pc' = [(IF old_keys = {} THEN pc ELSE Disturbed(t)) EXCEPT ![t].at = "written"]
          /\ UNCHANGED <<cfg, seed, scraper_cache, call, ret, cache_lock>>

\* with self.cache_lock: __exit__; cache_permissions then starts the save
\* thread
ReleaseCacheLock ==
    /\ \E t \in Threads :
          /\ cache_lock = t
          /\ pc[t].op \in {"cache_permissions", "cleanup_old_entries"} => pc[t].at = "written"
          /\ cache_lock' = "free"
          /\ pc' = [u \in Threads |->
                       IF u = t THEN Idle
                       ELSE IF u = "save" /\ pc[t].op = "cache_permissions"
                                          /\ pc[u].at = "idle"
                       THEN [Idle EXCEPT !.at = "spawned"]
                       ELSE pc[u]]
          /\ UNCHANGED <<cfg, seed, scraper_cache, auto_cache, call, ret>>

CacheNext ==
    \/ EnterUnlocked
    \/ LeaveUnlocked
    \/ AcquireCacheLock
    \/ InsertEntry
    \/ DeleteOldEntries
    \/ ReleaseCacheLock

CacheSpec == Init /\ [][CacheNext]_vars

\* ------------------------------------------------------------------------
\* Properties of the batch analysis
\* ------------------------------------------------------------------------
\* the call just made is op, and it returned
ReturnedFrom(op) == call.op = op /\ ret.raised = ""

\* the texts of a batch that parse (Parses = TRUE) or fail to, in input order
TextsThat(commands, Parses) ==
    LET Keep(t) == ParseTable[t].ok = Parses IN SelectSeq(commands, Keep)

FailedToParse(warning) == StartsWith(warning, "Failed to parse command")

\* C1: analyze_commands never aborts a batch: it returns for every list of
\* texts; the warnings that begin 'Failed to parse command' are one per
\* failing text, in input order, each quoting its text; every other text is
\* processed (its service is in services_used) and result.commands holds
\* exactly the parsed texts in input order.
C1_BatchNeverAborts ==
    call.op = "analyze_commands" =>
        LET failing == TextsThat(call.commands, FALSE)
            parsing == TextsThat(call.commands, TRUE)
            failed == SelectSeq(ret.value.warnings, FailedToParse)
        IN  /\ ret.raised = ""
            /\ Len(failed) = Len(failing)
            /\ \A i \in DOMAIN failed :
                  StartsWith(failed[i],
                             "Failed to parse command '" \o failing[i] \o "'")
            /\ [i \in DOMAIN ret.value.commands |-> ret.value.commands[i].raw_command]
                  = [i \in DOMAIN parsing |-> Strip(parsing[i])]
            /\ \A i \in DOMAIN parsing :
                  ParseTable[parsing[i]].service \in Range(ret.value.services_used)

\* a batch whose first text fails to parse and whose second text parses
C1_Witness ==
    /\ ReturnedFrom("analyze_commands")
    /\ call.commands = <<"invalid command", "aws s3 ls s3://my-bucket/prefix">>
    /\ Len(SelectSeq(ret.value.warnings, FailedToParse)) = 1
    /\ Len(ret.value.commands) = 1
    /\ ret.value.commands[1].raw_command = "aws s3 ls s3://my-bucket/prefix"

\* C2: analyze_command raises exactly when its text fails to parse, and no
\* other operation of the analyzer raises: analyze_commands,
\* generate_resource_specific_policy, generate_least_privilege_policy and
\* get_service_summary return a result for every input list.
C2_OnlyHardFailure ==
    /\ call.op = "analyze_command" =>
          ((ret.raised # "") <=> ~ParseTable[call.commands[1]].ok)
    /\ call.op \in {"analyze_commands", "generate_resource_specific_policy",
                    "generate_least_privilege_policy", "get_service_summary"} =>
          ret.raised = ""

\* Effect, a non-empty Action list and Resource in every statement of a
\* policy whose Version is the fixed one
WellFormedStatement(statement) ==
    /\ {"Effect", "Action", "Resource"} \subseteq DOMAIN statement
    /\ Len(statement.Action) > 0
WellFormedPolicy(policy) ==
    /\ {"Version", "Statement"} \subseteq DOMAIN policy
    /\ policy.Version = "2012-10-17"
    /\ \A i \in DOMAIN policy.Statement : WellFormedStatement(policy.Statement[i])

\* C3: for any input list, generate_resource_specific_policy returns a policy,
\* and that policy and analyze_commands(...).policy_document have Version
\* '2012-10-17' and a Statement list in which every entry has Effect, a
\* non-empty Action list and Resource.
C3_PolicyShape ==
    /\ call.op = "analyze_commands" =>
          ret.raised = "" /\ WellFormedPolicy(ret.value.policy_document)
    /\ call.op = "generate_resource_specific_policy" =>
          ret.raised = "" /\ WellFormedPolicy(ret.value)

\* ------------------------------------------------------------------------
\* Properties of the deduplication
\* ------------------------------------------------------------------------
\* the list the call just made got from _deduplicate_permissions
Deduplicated ==
    IF call.op = "_deduplicate_permissions" THEN ret.value
    ELSE IF ReturnedFrom("analyze_commands") THEN ret.value.required_permissions
    ELSE <<>>

SameGroup(p, q) ==
    p.action = q.action /\ p.condition = q.condition /\ p.effect = q.effect

\* C4: in the output of _deduplicate_permissions, and so in
\* required_permissions, a permission with resource '*' is the only member of
\* its (action, condition, effect) group: a wildcard never stands beside
\* another wildcard or beside a specific resource of the same group.
C4_WildcardAlone ==
    \A i, j \in DOMAIN Deduplicated :
        (i # j /\ SameGroup(Deduplicated[i], Deduplicated[j]))
            => Deduplicated[i].resource # "*"

\* a wildcard and a specific resource of one group went in, and the specific
\* one alone came out
C4_Witness ==
    /\ call.op = "_deduplicate_permissions"
    /\ call.permissions = <<IAMPermission("s3:GetObject", "*"),
                            IAMPermission("s3:GetObject", "arn:aws:s3:::b/*")>>
    /\ ret.value = <<IAMPermission("s3:GetObject", "arn:aws:s3:::b/*")>>

\* C5: required_permissions of an AnalysisResult never holds two permissions
\* equal in action, resource, condition and effect.
C5_NoDuplicates ==
    ReturnedFrom("analyze_commands") =>
        \A i, j \in DOMAIN ret.value.required_permissions :
            ret.value.required_permissions[i] = ret.value.required_permissions[j]
                => i = j

\* ------------------------------------------------------------------------
\* Properties of the parser
\* ------------------------------------------------------------------------
\* the words of a text once surrounding whitespace and the optional 'aws'
\* prefix are taken away
TokensAfterPrefix(text) ==
    LET words == SplitWS(Strip(text))
    IN  IF Len(words) > 0 /\ Lower(words[1]) = "aws" THEN Tail(words) ELSE words

\* C6: parse_command fails with a parse error for every text that, after the
\* whitespace and the optional 'aws' prefix are stripped, has fewer than two
\* tokens (a service and an action); 'aws s3' is never returned as a
\* ParsedCommand.
C6_TwoTokensRequired ==
    (call.op = "parse_command" /\ Len(TokensAfterPrefix(call.command)) < 2)
        => ret.raised = "ValueError"

\* ------------------------------------------------------------------------
\* Properties of the catalog misses
\* ------------------------------------------------------------------------
\* the only command of the batch just analysed, when the batch has one
OnlyCommand == IF Len(call.commands) = 1 THEN call.commands[1] ELSE ""

\* the texts whose service the catalog lacks, and those whose service it has
\* but whose action it lacks, each with the fallback action '<service>:<Verb>'
UnknownServiceTexts == {"aws unsupported-service some-action"}
UnknownActionTexts == {"aws lambda get-account-settings"}
ExpectedFallback(text) ==
    CASE text = "aws unsupported-service some-action" -> "unsupported-service:SomeAction"
      [] text = "aws lambda get-account-settings" -> "lambda:GetAccountSettings"
      [] text = "aws braket get-device" -> "braket:GetDevice"
      [] text = "aws braket get-widget" -> "braket:GetWidget"

\* C7: a parseable command whose service and action the catalog lacks,
\* analysed without a discovery overlay, is listed in missing_commands, gives
\* exactly one warning, and required_permissions is exactly the one fallback
\* permission '<service>:<Verb>' on resource '*'.
C7_UnknownPair ==
    (/\ ReturnedFrom("analyze_commands")
     /\ ~cfg.enable_auto_discovery
     /\ ~call.include_read_only
     /\ OnlyCommand \in UnknownServiceTexts)
        => /\ ret.value.missing_commands = <<OnlyCommand>>
           /\ Len(ret.value.warnings) = 1
           /\ ret.value.required_permissions
                 = <<IAMPermission(ExpectedFallback(OnlyCommand), "*")>>

\* C8: analyze_command on a parseable command whose service the catalog does
\* not support returns the parsed service and action and an empty
\* required_permissions list.
C8_NothingInvented ==
    (call.op = "analyze_command" /\ OnlyCommand \in UnknownServiceTexts)
        => /\ ret.raised = ""
           /\ ret.value.service = ParseTable[OnlyCommand].service
           /\ ret.value.action = ParseTable[OnlyCommand].action
           /\ ret.value.required_permissions = <<>>

OverlayAnswers(text) ==
    /\ cfg.enable_auto_discovery
    /\ <<ParseTable[text].service, ParseTable[text].action>> \in CliCommands
    /\ cfg.aws_cli = "installed"

NamesFallback(text, warnings) ==
    \E i \in DOMAIN warnings : Contains(warnings[i], ExpectedFallback(text))

ResourcesOf(action, permissions) ==
    {permissions[i].resource : i \in {j \in DOMAIN permissions : permissions[j].action = action}}

\* C10: for a command whose discovered ARNs hold a bucket-level and an
\* object-level S3 ARN, in either order, s3:ListBucket gets the bare bucket
\* ARN, s3:GetObject an object-level ARN and s3:PutObject '<bucket ARN>/*':
\* 's3 ls s3://my-bucket/prefix' yields s3:ListBucket on the bucket ARN of
\* my-bucket, 's3 cp file.txt s3://bucket-a/x' yields s3:PutObject on
\* arn:aws:s3:::bucket-a/* and s3:GetObject on object-level ARNs.
C10_LevelMatchedResource ==
    /\ (ReturnedFrom("analyze_commands") /\ OnlyCommand = "aws s3 ls s3://my-bucket/prefix")
          => ResourcesOf("s3:ListBucket", ret.value.required_permissions)
                = {"arn:aws:s3:::my-bucket"}
    /\ (ReturnedFrom("analyze_commands") /\ OnlyCommand = "aws s3 cp file.txt s3://bucket-a/x")
          => /\ ResourcesOf("s3:ListBucket", ret.value.required_permissions)
                   = {"arn:aws:s3:::bucket-a"}
             /\ ResourcesOf("s3:PutObject", ret.value.required_permissions)
                   = {"arn:aws:s3:::bucket-a/*"}
             /\ \A r \in ResourcesOf("s3:GetObject", ret.value.required_permissions) :
                   IsObjectArn(r)

\* ------------------------------------------------------------------------
\* Properties of the s3 cp enhancement
\* ------------------------------------------------------------------------
Grants(permissions, action, resource) ==
    \E i \in DOMAIN permissions :
        permissions[i].action = action /\ permissions[i].resource = resource

\* the bucket-level ARNs discovered in a text
BucketArnsOf(text) == {arn \in ArnTable[text] : IsBucketArn(arn)}

IsS3Cp(text) ==
    ParseTable[text].ok /\ ParseTable[text].service = "s3" /\ ParseTable[text].action = "cp"

\* C11: for every 's3 cp' command of a batch and every bucket-level ARN b
\* among that command's discovered ARNs, required_permissions holds
\* s3:ListBucket on exactly b, s3:PutObject on b/* and s3:GetObject on b/*.
C11_EveryBucketCovered ==
    ReturnedFrom("analyze_commands") =>
        \A i \in DOMAIN call.commands :
            IsS3Cp(call.commands[i]) =>
                \A b \in BucketArnsOf(call.commands[i]) :
                    /\ Grants(ret.value.required_permissions, "s3:ListBucket", b)
                    /\ Grants(ret.value.required_permissions, "s3:PutObject", b \o "/*")
                    /\ Grants(ret.value.required_permissions, "s3:GetObject", b \o "/*")

\* ------------------------------------------------------------------------
\* Properties of generate_resource_specific_policy
\* ------------------------------------------------------------------------
\* the (action, resource) pairs a policy allows
PolicyPairs(policy) ==
    UNION {{<<policy.Statement[i].Action[k], policy.Statement[i].Resource>> :
               k \in DOMAIN policy.Statement[i].Action} : i \in DOMAIN policy.Statement}

CatalogKnown(text) ==
    ParseTable[text].ok /\ ParseTable[text].action \in CatalogActions(ParseTable[text].service)

\* step 1 of the precedence: the discovered ARN selected for a
\* resource-sensitive action, or "" when the step yields nothing
SelectedFor(action, cmd) ==
    IF Len(cmd.resource_arns) = 0 THEN ""
    ELSE IF cfg.impl = "src"
    THEN IF _should_use_specific_resource_src(action, cmd.service)
         THEN _select_appropriate_resource_arn_src(action, cmd.resource_arns) ELSE ""
    ELSE IF _should_use_specific_resource(action, cmd.service)
         THEN _select_appropriate_resource_arn(action, cmd.resource_arns) ELSE ""

\* step 2: the ARNs synthesized from the command's parameters
SynthesizedFor(action, cmd, scope) ==
    _generate_arns_from_command_params(cmd, action, scope.account_id, scope.region).arns

\* the resource the precedence gives a catalog permission of a command
ByPrecedence(permission, cmd, scope) ==
    IF SelectedFor(permission.action, cmd) # ""
    THEN _enhance_single_arn(SelectedFor(permission.action, cmd),
                             scope.account_id, scope.region)
    ELSE IF Len(SynthesizedFor(permission.action, cmd, scope)) > 0
    THEN SynthesizedFor(permission.action, cmd, scope)[1]
    ELSE _enhance_single_arn(permission.resource, scope.account_id, scope.region)

\* the pairs the precedence gives the catalog permissions of a text
PairsByPrecedence(text, scope) ==
    {<<p.action, ByPrecedence(p, ParsedCommand(text, seed), scope)>> :
        p \in Range(_permissions_map(ParseTable[text].service, ParseTable[text].action))}

\* C12: in the policy generate_resource_specific_policy returns, each catalog
\* permission of each command has the resource the precedence gives it: the
\* selected discovered ARN with account and region substituted, else the first
\* ARN synthesized from the parameters, else the catalog resource with account
\* and region substituted (a '*' may give way to a specific resource of the
\* same action); and 'ec2 describe-instances --instance-ids i-X' with account
\* A and region R yields ec2:DescribeInstances on arn:aws:ec2:R:A:instance/i-X.
C12_ResourcePrecedence ==
    ReturnedFrom("generate_resource_specific_policy") =>
        /\ \A i \in DOMAIN call.commands :
              CatalogKnown(call.commands[i]) =>
                 \A pair \in PairsByPrecedence(call.commands[i], call) :
                    \/ pair \in PolicyPairs(ret.value)
                    \/ /\ pair[2] = "*"
                       /\ \E other \in PolicyPairs(ret.value) : other[1] = pair[1]
        /\ (\A i \in DOMAIN call.commands : ~OverlayAnswers(call.commands[i]))
              => PolicyPairs(ret.value) \subseteq
                    UNION {PairsByPrecedence(call.commands[i], call) :
                              i \in {j \in DOMAIN call.commands :
                                        CatalogKnown(call.commands[j])}}
        /\ (/\ call.commands = <<"aws ec2 describe-instances --instance-ids i-0123456789abcdef0">>
            /\ call.account_id = Some("111111111111")
            /\ call.region = Some("us-east-1"))
              => PolicyPairs(ret.value) =
                    {<<"ec2:DescribeInstances",
                       "arn:aws:ec2:us-east-1:111111111111:instance/i-0123456789abcdef0">>}

\* the ec2 example with account and region, and a command whose discovered
\* ARN and synthesized ARN differ
C12_Witness ==
    /\ ReturnedFrom("generate_resource_specific_policy")
    /\ call.commands = <<"aws ec2 describe-instances --instance-ids i-0123456789abcdef0",
                         "aws s3 ls s3://my-bucket/prefix">>
    /\ call.account_id = Some("111111111111")
    /\ <<"ec2:DescribeInstances",
         "arn:aws:ec2:us-east-1:111111111111:instance/i-0123456789abcdef0">>
          \in PolicyPairs(ret.value)
    /\ \E pair \in PolicyPairs(ret.value) :
          pair[1] = "s3:ListBucket" /\ StartsWith(pair[2], "arn:aws:s3:::my-bucket")

\* the texts of a batch whose discovered ARNs are not empty
YieldsArn(text) == ParseTable[text].ok /\ ArnTable[text] # {}

\* C13: the _metadata of generate_resource_specific_policy has
\* resource_specific true, account_id and region as they were passed,
\* commands_analyzed the number of commands the call was given,
\* specific_resources_found the number of those commands that yielded at
\* least one discovered ARN, and specific_resources_found <= commands_analyzed.
C13_Metadata ==
    ReturnedFrom("generate_resource_specific_policy") =>
        /\ ret.value._metadata.resource_specific = TRUE
        /\ ret.value._metadata.account_id = call.account_id
        /\ ret.value._metadata.region = call.region
        /\ ret.value._metadata.commands_analyzed = Len(call.commands)
        /\ ret.value._metadata.specific_resources_found
              = Len(SelectSeq(call.commands, YieldsArn))
        /\ ret.value._metadata.specific_resources_found
              <= ret.value._metadata.commands_analyzed

\* two commands, one of which yields ARNs, with account and region passed
C13_Witness ==
    /\ ReturnedFrom("generate_resource_specific_policy")
    /\ call.commands = <<"aws lambda get-account-settings", "aws s3 ls s3://my-bucket/prefix">>
    /\ call.account_id = Some("111111111111")
    /\ ret.value._metadata.commands_analyzed = 2
    /\ ret.value._metadata.specific_resources_found = 1
    /\ ret.value._metadata.region = Some("us-east-1")

\* ------------------------------------------------------------------------
\* Properties of the hardening step
\* ------------------------------------------------------------------------
\* an action with one of the data verbs in it, whatever its case
DataShaped(action) ==
    \E verb \in {"get", "put", "post", "upload", "download"} :
        Contains(Lower(action), verb)
HasDataVerb(statement) ==
    \E k \in DOMAIN statement.Action : DataShaped(statement.Action[k])

ConditionItems(statement) ==
    IF "Condition" \in DOMAIN statement THEN Range(statement.Condition.items) ELSE {}
RequiresSecureTransport(statement) ==
    /\ "Condition" \in DOMAIN statement
    /\ \E item \in ConditionItems(statement) :
          item.op = "Bool" /\ item.key = "aws:SecureTransport" /\ item.value = "true"
    /\ \A item \in ConditionItems(statement) :
          (item.op = "Bool" /\ item.key = "aws:SecureTransport") => item.value = "true"

\* what the hardening step made of one statement
Hardened(before, after) ==
    /\ after.Effect = before.Effect
    /\ after.Action = before.Action
    /\ IF HasDataVerb(before)
       THEN /\ RequiresSecureTransport(after)
            /\ \A item \in ConditionItems(before) :
                  \/ item \in ConditionItems(after)
                  \/ item.op = "Bool" /\ item.key = "aws:SecureTransport"
       ELSE after = before

\* C14: the hardening step of generate_least_privilege_policy gives every
\* statement with a data verb (get, put, post, upload, download) in its
\* actions the condition Bool aws:SecureTransport = 'true' and keeps every
\* other condition operator and key the statement had; it leaves every other
\* statement as it was, without a Condition if it had none; it alters no
\* Effect and no Action list.  In the returned policy the statements with a
\* data verb are exactly those that require secure transport.
C14_SecureTransportMerged ==
    /\ call.op = "_add_security_conditions" =>
          /\ Len(ret.value.Statement) = Len(call.policy_doc.Statement)
          /\ \A i \in DOMAIN call.policy_doc.Statement :
                Hardened(call.policy_doc.Statement[i], ret.value.Statement[i])
    /\ ReturnedFrom("generate_least_privilege_policy") =>
          \A i \in DOMAIN ret.value.Statement :
             /\ ret.value.Statement[i].Effect = "Allow"
             /\ IF HasDataVerb(ret.value.Statement[i])
                THEN RequiresSecureTransport(ret.value.Statement[i])
                ELSE "Condition" \notin DOMAIN ret.value.Statement[i]

\* a data statement conditioned by another operator next to a statement
\* without a data verb: the first gains the Bool condition beside its own,
\* the second is as it was
C14_Witness ==
    /\ call.op = "_add_security_conditions"
    /\ Len(call.policy_doc.Statement) = 2
    /\ ConditionItems(call.policy_doc.Statement[1])
          = {[op |-> "StringEquals", key |-> "aws:RequestedRegion", value |-> "us-east-1"]}
    /\ HasDataVerb(call.policy_doc.Statement[1])
    /\ ~HasDataVerb(call.policy_doc.Statement[2])
    /\ Cardinality(ConditionItems(ret.value.Statement[1])) = 2
    /\ RequiresSecureTransport(ret.value.Statement[1])
    /\ ret.value.Statement[2] = call.policy_doc.Statement[2]

\* ------------------------------------------------------------------------
\* Properties of get_service_summary
\* ------------------------------------------------------------------------
\* the permissions the summary lists under a service
SummaryPermissions(summary, service) ==
    UNION {Range(summary[i].permissions) :
              i \in {j \in DOMAIN summary : summary[j].service = service}}

\* the permissions analyze_commands, as get_service_summary calls it,
\* requires for the batch
RequiredBy(commands) ==
    analyze_commands(cfg, seed, scraper_cache, auto_cache, commands, FALSE, TRUE)
        .result.required_permissions

\* C15: get_service_summary lists every required permission 'svc:Verb' of the
\* analysis in the permissions of summary[svc], also when svc is not the
\* service of the command that required it (iam:PassRole of a lambda command).
C15_EveryPermissionAttributed ==
    ReturnedFrom("get_service_summary") =>
        \A p \in Range(RequiredBy(call.commands)) :
            p.action \in SummaryPermissions(ret.value, Split(p.action, ":")[1])

\* ------------------------------------------------------------------------
\* Properties of the analyzer's caches
\* ------------------------------------------------------------------------
\* what analyze_commands returns for the arguments of the call just made on
\* an analyzer on which nothing has run yet
OnFreshAnalyzer ==
    analyze_commands(cfg, seed, {}, {}, call.commands, call.strict_resources,
                     call.include_read_only).result

\* C16: the result of analyze_commands depends on its arguments and the
\* catalog only: whatever ran on the analyzer before, the call returns what
\* the same call returns on an analyzer on which nothing has run, so two calls
\* with the same arguments return equal results.
C16_PureAnalysis ==
    ReturnedFrom("analyze_commands") => ret.value = OnFreshAnalyzer

\* ------------------------------------------------------------------------
\* Properties of the discovery overlay
\* ------------------------------------------------------------------------
\* the parseable texts the manual catalog has no entry for
UncataloguedTexts == {t \in Texts : ParseTable[t].ok /\ ~CatalogKnown(t)}

\* the discovery overlay was asked about the only command of the batch and
\* gave nothing: the CLI is absent or does not list the command
OverlayGaveNothing ==
    /\ ReturnedFrom("analyze_commands")
    /\ cfg.enable_auto_discovery
    /\ ~call.include_read_only
    /\ OnlyCommand \in UncataloguedTexts
    /\ ~OverlayAnswers(OnlyCommand)

\* what the doc scraper's mapping rules make of a command: the first matching
\* prefix pattern, else '<service>:<Verb>'
ExpectedScraperMapping(text) ==
    CASE text = "aws unsupported-service some-action" -> "unsupported-service:SomeAction"
      [] text = "aws lambda get-account-settings" -> "lambda:Get*"
      [] text = "aws braket get-device" -> "braket:Get*"
      [] text = "aws braket get-widget" -> "braket:Get*"

\* the services get_supported_services lists
SupportedNow == CatalogServices \cup {key[1] : key \in auto_cache}

ActionSet(permissions) == {permissions[i].action : i \in DOMAIN permissions}

\* a command of the manual catalog is answered from the manual catalog
AnsweredFromCatalog ==
    (ReturnedFrom("analyze_commands") /\ ~call.include_read_only /\ CatalogKnown(OnlyCommand))
        => /\ ret.value.missing_commands = <<>>
           /\ ActionSet(ret.value.required_permissions)
                 = ActionSet(_permissions_map(ParseTable[OnlyCommand].service,
                                              ParseTable[OnlyCommand].action))

\* C18 as stated: a (service, action) of the manual catalog is answered from
\* the manual catalog whatever the overlay cache holds, and the overlay and
\* the scraper are consulted (and so hold an entry) only for a command the
\* manual catalog lacks whose service is not a catalog service.
C18_OverlayOnlyForUnrecognized ==
    /\ AnsweredFromCatalog
    /\ \A key \in auto_cache \cup scraper_cache :
          key[2] \notin CatalogActions(key[1]) /\ key[1] \notin CatalogServices

\* C18: a (service, action) of the manual catalog is answered from the manual
\* catalog whatever the overlay cache holds; the overlay is consulted for
\* every command the manual catalog lacks, of a catalog service or not, and
\* holds what the CLI lists; the analyzer's doc scraper is consulted only for
\* a command the manual catalog lacks whose service is not a catalog service.
C18_ResolutionOrder ==
    /\ AnsweredFromCatalog
    /\ \A key \in auto_cache :
          key[2] \notin CatalogActions(key[1]) /\ key \in CliCommands
    /\ \A key \in scraper_cache :
          key[2] \notin CatalogActions(key[1]) /\ key[1] \notin CatalogServices

\* the overlay holds a discovery for the catalog service lambda, and a command
\* of the manual catalog is answered from the manual catalog
C18_Witness ==
    /\ ReturnedFrom("analyze_commands")
    /\ ~call.include_read_only
    /\ <<"lambda", "get-account-settings">> \in auto_cache
    /\ OnlyCommand = "aws lambda create-function --function-name f"
    /\ ActionSet(ret.value.required_permissions) = {"lambda:CreateFunction", "iam:PassRole"}

\* C20: _deduplicate_permissions loses no coverage: every (action, condition,
\* effect) group of the input has a permission in the output, every
\* non-wildcard permission of the input is in the output, and every
\* permission of the output was in the input.
C20_NoCoverageLost ==
    ReturnedFrom("_deduplicate_permissions")
        => /\ \A i \in DOMAIN call.permissions :
                 /\ \E j \in DOMAIN ret.value : SameGroup(call.permissions[i], ret.value[j])
                 /\ call.permissions[i].resource # "*"
                       => \E j \in DOMAIN ret.value : ret.value[j] = call.permissions[i]
           /\ \A j \in DOMAIN ret.value :
                 \E i \in DOMAIN call.permissions : ret.value[j] = call.permissions[i]

\* two specific resources and the wildcard of one group went in, and both
\* specific resources came out
C20_Witness ==
    /\ ReturnedFrom("_deduplicate_permissions")
    /\ call.permissions = <<IAMPermission("s3:GetObject", "arn:aws:s3:::b/*"),
                            IAMPermission("s3:GetObject", "*"),
                            IAMPermission("s3:GetObject", "arn:aws:s3:::a/*")>>
    /\ ret.value = <<IAMPermission("s3:GetObject", "arn:aws:s3:::a/*"),
                     IAMPermission("s3:GetObject", "arn:aws:s3:::b/*")>>

\* ------------------------------------------------------------------------
\* Resource customization
\* ------------------------------------------------------------------------
\* the whitelist and the selection of the copy of the analyzer that runs
OnWhitelist(action, service) ==
    IF cfg.impl = "src" THEN _should_use_specific_resource_src(action, service)
    ELSE _should_use_specific_resource(action, service)
SelectedArn(action, arns) ==
    IF cfg.impl = "src" THEN _select_appropriate_resource_arn_src(action, arns)
    ELSE _select_appropriate_resource_arn(action, arns)
CustomizedAsDecided(permission, cmd, strict_resources, out) ==
    /\ out.action = permission.action
    /\ out.condition = permission.condition
    /\ out.effect = permission.effect
    /\ IF Len(cmd.resource_arns) > 0 /\ OnWhitelist(permission.action, cmd.service)
       THEN out.resource = SelectedArn(permission.action, cmd.resource_arns)
       ELSE IF strict_resources /\ Len(cmd.resource_arns) > 0
       THEN out.resource = cmd.resource_arns[1]
       ELSE out = permission

\* C19: _customize_permission_resource keeps the action, the condition and
\* the effect; with a discovered ARN and a whitelisted action the resource is
\* the selected ARN, otherwise with strict_resources and a discovered ARN it
\* is the first discovered ARN, otherwise the permission is returned unchanged.
C19_CustomizeDecision ==
    ReturnedFrom("_customize_permission_resource")
        => CustomizedAsDecided(call.permission, call.parsed_cmd,
                               call.strict_resources, ret.value)

\* a whitelisted permission with a condition got the ARN of the command
C19_Witness ==
    /\ ReturnedFrom("_customize_permission_resource")
    /\ ~call.strict_resources
    /\ call.permission.action = "s3:GetObject"
    /\ call.permission.condition = SecureTransport
    /\ Len(call.parsed_cmd.resource_arns) > 0
    /\ ret.value.resource # call.permission.resource
    /\ ret.value.condition = SecureTransport

\* ------------------------------------------------------------------------
\* Policy document
\* ------------------------------------------------------------------------
\* the condition a statement carries, and the permissions a statement expresses
ConditionOf(statement) ==
    IF "Condition" \in DOMAIN statement THEN statement.Condition ELSE NoneCondition
Expressed(statement) ==
    {[action |-> statement.Action[n], resource |-> statement.Resource,
      condition |-> ConditionOf(statement), effect |-> statement.Effect] :
        n \in DOMAIN statement.Action}
StatementGroup(p) == <<p.resource, p.effect, p.condition>>
StrictlySorted(strs) ==
    \A n \in 1..(Len(strs) - 1) : StrLess(strs[n], strs[n + 1])

\* C21: _generate_policy_document emits one statement per distinct (resource,
\* effect, condition) of its input; the Action list of each statement is
\* sorted, has no duplicate and holds the actions of the permissions of its
\* group, so the policy expresses exactly the input permissions.
C21_OneStatementPerGroup ==
    ReturnedFrom("_generate_policy_document")
        => /\ Len(ret.value.Statement)
                 = Cardinality({StatementGroup(call.permissions[i]) : i \in DOMAIN call.permissions})
           /\ \A k \in DOMAIN ret.value.Statement :
                 /\ StrictlySorted(ret.value.Statement[k].Action)
                 /\ Len(ret.value.Statement[k].Action) > 0
                 /\ Expressed(ret.value.Statement[k])
                       = {call.permissions[i] : i \in
                            {j \in DOMAIN call.permissions :
                                StatementGroup(call.permissions[j])
                                   = <<ret.value.Statement[k].Resource,
                                       ret.value.Statement[k].Effect,
                                       ConditionOf(ret.value.Statement[k])>>}}
           /\ UNION {Expressed(ret.value.Statement[k]) : k \in DOMAIN ret.value.Statement}
                 = {call.permissions[i] : i \in DOMAIN call.permissions}

\* two actions on one resource, appended out of order and one of them twice,
\* became one statement with its actions sorted
C21_Witness ==
    /\ ReturnedFrom("_generate_policy_document")
    /\ call.permissions = <<IAMPermission("s3:ListBucket", "*"),
                            IAMPermission("s3:GetObject", "*"),
                            IAMPermission("s3:ListBucket", "*")>>
    /\ ret.value.Statement = <<[Effect |-> "Allow",
                                Action |-> <<"s3:GetObject", "s3:ListBucket">>,
                                Resource |-> "*"]>>

\* ------------------------------------------------------------------------
\* Read-only baseline
\* ------------------------------------------------------------------------
\* the actions a command requires itself: those of its catalog entry and of
\* the s3 cp enhancement, or the one action of its fallback
OwnActions(text) ==
    IF ~ParseTable[text].ok THEN {}
    ELSE IF CatalogKnown(text)
    THEN ActionSet(_permissions_map(ParseTable[text].service, ParseTable[text].action))
            \cup (IF IsS3Cp(text) THEN {"s3:ListBucket", "s3:GetObject", "s3:PutObject"} ELSE {})
    ELSE {ExpectedFallback(text), ExpectedScraperMapping(text)}
OwnActionsOf(commands) == UNION {OwnActions(commands[i]) : i \in DOMAIN commands}
PolicyActions(policy) ==
    UNION {Range(policy.Statement[k].Action) : k \in DOMAIN policy.Statement}

\* C22: with include_read_only, every baseline action of the service of every
\* parsed command is in required_permissions, on '*' or on specific resources
\* only, and in a statement of the policy; without include_read_only every
\* required action is one a command of the batch requires itself.
C22_ReadOnlyBaseline ==
    ReturnedFrom("analyze_commands")
        => IF call.include_read_only
           THEN \A c \in DOMAIN ret.value.commands :
                   \A n \in DOMAIN read_only_actions(ret.value.commands[c].service) :
                      /\ ResourcesOf(read_only_actions(ret.value.commands[c].service)[n],
                                     ret.value.required_permissions) # {}
                      /\ read_only_actions(ret.value.commands[c].service)[n]
                            \in PolicyActions(ret.value.policy_document)
           ELSE ActionSet(ret.value.required_permissions) \subseteq OwnActionsOf(call.commands)

\* with include_read_only, s3 ls of a bucket got s3:GetBucketLocation on '*'
\* from the baseline, and s3:ListBucket stayed on the bucket alone
C22_Witness ==
    /\ ReturnedFrom("analyze_commands")
    /\ call.include_read_only /\ ~call.strict_resources
    /\ call.commands = <<"aws s3 ls s3://my-bucket/prefix">>
    /\ ResourcesOf("s3:GetBucketLocation", ret.value.required_permissions) = {"*"}
    /\ ResourcesOf("s3:ListBucket", ret.value.required_permissions) = {"arn:aws:s3:::my-bucket"}
    /\ "s3:GetBucketLocation" \in PolicyActions(ret.value.policy_document)

\* ------------------------------------------------------------------------
\* Properties of _parse_parameters
\* ------------------------------------------------------------------------
\* the tokens of the call, the long flags among them, and the last occurrence
\* of a token
ParamTokensOfCall == SplitWS(call.params_str)
IsLongFlag(token) == StartsWith(token, "--") /\ ~Contains(token, "=")
IsNameValue(token) == StartsWith(token, "--") /\ Contains(token, "=")
LastOccurrence(tokens, i) == \A j \in DOMAIN tokens : tokens[j] = tokens[i] => j <= i
HoldsValue(parameters, key, value) ==
    DictHas(parameters, key) /\ ~DictGet(parameters, key).b /\ DictGet(parameters, key).v = value
HoldsTrue(parameters, key) == DictHas(parameters, key) /\ DictGet(parameters, key).b

\* C23: a token '--f' takes the following token as its value whenever that
\* token exists and does not start with the flag marker '--', and is the
\* boolean true otherwise; in the boolean case the following token is
\* processed as its own token.
C23_FlagTakesNextToken ==
    ReturnedFrom("_parse_parameters")
        => \A i \in DOMAIN ParamTokensOfCall :
              (IsLongFlag(ParamTokensOfCall[i]) /\ LastOccurrence(ParamTokensOfCall, i))
                 => IF i < Len(ParamTokensOfCall) /\ ~StartsWith(ParamTokensOfCall[i + 1], "--")
                    THEN HoldsValue(ret.value, ParamTokensOfCall[i], ParamTokensOfCall[i + 1])
                    ELSE /\ HoldsTrue(ret.value, ParamTokensOfCall[i])
                         /\ i < Len(ParamTokensOfCall)
                               => DictHas(ret.value, ParamTokensOfCall[i + 1])

\* C24: a token '--name=value' is split on its first '=': parameters['name']
\* is 'value', and the token that follows is not consumed as its value.
C24_NameValueSplit ==
    ReturnedFrom("_parse_parameters")
        => \A i \in DOMAIN ParamTokensOfCall :
              (IsNameValue(ParamTokensOfCall[i]) /\ LastOccurrence(ParamTokensOfCall, i))
                 => /\ HoldsValue(ret.value,
                                  Slice(Split(ParamTokensOfCall[i], "=")[1], 3,
                                        Len(Split(ParamTokensOfCall[i], "=")[1])),
                                  Slice(ParamTokensOfCall[i],
                                        Find(ParamTokensOfCall[i], "=", 1) + 1,
                                        Len(ParamTokensOfCall[i])))
                    /\ (i < Len(ParamTokensOfCall) /\ ~StartsWith(ParamTokensOfCall[i + 1], "-"))
                          => \E e \in DOMAIN ret.value :
                                /\ StartsWith(ret.value[e].k, "arg_")
                                /\ ret.value[e].v = ParamTokensOfCall[i + 1]

\* C30: for every flag '--f' that was given a value, parameters['f'] and
\* parameters['--f'] hold the value of the last occurrence of the flag, and
\* never the boolean true of a value alias.
C30_AliasesHideNothing ==
    ReturnedFrom("_parse_parameters")
        => \A i \in DOMAIN ParamTokensOfCall :
              (/\ IsLongFlag(ParamTokensOfCall[i])
               /\ LastOccurrence(ParamTokensOfCall, i)
               /\ i < Len(ParamTokensOfCall)
               /\ ~StartsWith(ParamTokensOfCall[i + 1], "-"))
                 => /\ HoldsValue(ret.value, ParamTokensOfCall[i], ParamTokensOfCall[i + 1])
                    /\ HoldsValue(ret.value,
                                  Slice(ParamTokensOfCall[i], 3, Len(ParamTokensOfCall[i])),
                                  ParamTokensOfCall[i + 1])

\* ------------------------------------------------------------------------
\* Properties of the ARN extraction
\* ------------------------------------------------------------------------
\* the 's3://B/K' tokens of a text, with the bucket B and the key K of one
UrisOf(text) == {token \in Range(SplitWS(text)) : StartsWith(token, "s3://")}
UriBucket(uri) ==
    IF Find(uri, "/", 6) = 0 THEN Slice(uri, 6, Len(uri))
    ELSE Slice(uri, 6, Find(uri, "/", 6) - 1)
UriKey(uri) ==
    IF Find(uri, "/", 6) = 0 THEN "" ELSE Slice(uri, Find(uri, "/", 6) + 1, Len(uri))
ObjectArnsOf(text) ==
    {"arn:aws:s3:::" \o UriBucket(uri) \o "/" \o UriKey(uri) :
        uri \in {u \in UrisOf(text) : UriKey(u) # ""}}

\* C25: for every 's3://B/K' of the text, resource_arns holds arn:aws:s3:::B
\* and, when K is not empty, arn:aws:s3:::B/K with the whole key; it holds no
\* other object ARN, and no ARN twice.
C25_BucketAndObjectArns ==
    ReturnedFrom("_extract_arns")
        => /\ \A uri \in UrisOf(call.command) :
                 "arn:aws:s3:::" \o UriBucket(uri) \in Range(ret.value)
           /\ ObjectArnsOf(call.command) \subseteq Range(ret.value)
           /\ \A arn \in Range(ret.value) :
                 IsObjectArn(arn) => arn \in ObjectArnsOf(call.command)
           /\ \A i, j \in DOMAIN ret.value : ret.value[i] = ret.value[j] => i = j

\* the service segment of an ARN 'arn:aws:<service>:...'
ArnService(arn) == Split(arn, ":")[3]

\* C27: when _customize_permission_resource, without strict_resources, gives
\* a permission a discovered ARN as its resource, the service segment of that
\* ARN is the prefix of the permission's action.
C27_ArnOfSameService ==
    (/\ ReturnedFrom("_customize_permission_resource")
     /\ ~call.strict_resources
     /\ ret.value.resource # call.permission.resource
     /\ ret.value.resource \in Range(call.parsed_cmd.resource_arns))
        => ArnService(ret.value.resource) = ActionPrefix(call.permission.action)

\* ------------------------------------------------------------------------
\* Properties across the policy generators
\* ------------------------------------------------------------------------
\* what analyze_commands(commands, include_read_only=False) requires on the
\* analyzer as the call just made left it
RequiredForCommands ==
    analyze_commands(cfg, seed, scraper_cache, auto_cache, call.commands, FALSE, FALSE)
        .result.required_permissions

\* C28: every action analyze_commands requires for the commands themselves is
\* in a statement of the policy generate_resource_specific_policy returns for
\* the same commands, the fallback action of a catalog miss included.
C28_PolicyCoversAnalysis ==
    ReturnedFrom("generate_resource_specific_policy")
        => ActionSet(RequiredForCommands) \subseteq PolicyActions(ret.value)

\* C29: every action of the policy generate_least_privilege_policy returns is
\* required by a command of the input: it is of the command's catalog entry,
\* of its enhancement, or its fallback.
C29_OnlyRequiredActions ==
    ReturnedFrom("generate_least_privilege_policy")
        => PolicyActions(ret.value) \subseteq OwnActionsOf(call.commands)

\* ------------------------------------------------------------------------
\* Properties of the discovery cache under threads
\* ------------------------------------------------------------------------
\* a thread is reading self.cache; a thread is inside the block that inserts
\* into it or deletes from it
ReadingCache(t) ==
    /\ pc[t].at = "inside"
    /\ pc[t].op \in {"is_cached", "get_cached_services", "get_cached_commands",
                     "get_cached_permissions", "get_stats", "_save_cache"}
WritingCache(t) ==
    /\ pc[t].at \in {"inside", "written"}
    /\ pc[t].op \in {"cache_permissions", "cleanup_old_entries"}

\* C26: no thread reads the entry map of the discovery cache while another
\* thread is inserting into it or deleting from it.
C26_CacheMutualExclusion ==
    \A t, u \in Threads : t # u => ~(ReadingCache(t) /\ WritingCache(u))

====
